---- MODULE Spec2Model ----
(***************************************************************************)
(* Position analysis of planar linkages (pyslvs): the expression           *)
(* synthesizer t_config (pyslvs/triangulation.pyx), the interpreter        *)
(* data_collecting / expr_parser / expr_solving and the DOF accountant     *)
(* vpoint_dof (src/tinycadlib.pyx).                                        *)
(*                                                                         *)
(* Numbers.  Coordinates and lengths are points of the integer lattice;    *)
(* hypot and sqrt round down to the lattice and a quotient is rounded      *)
(* down, so every kernel step is exact whenever its exact result is a      *)
(* lattice point (all mechanisms below are chosen that way).  Angles are   *)
(* multiples of a quarter turn.  NaN is one extra value that every         *)
(* arithmetic step propagates and every comparison answers FALSE on.       *)
(*                                                                         *)
(* Indices.  Joint i of the source (0-based) is element i+1 of a sequence. *)
(* Python lists are objects: `lists` is the heap of joint lists, and a     *)
(* list variable of the source holds an index into it.                     *)
(***************************************************************************)
EXTENDS Integers, Sequences, FiniteSets, TLC

VARIABLES
    lists,          \* heap of joint lists (list objects)
    vpoints_,       \* the caller's joint list (a reference into lists)
    inputs,         \* t_config: the input pairs <<base, node>>
    pc,             \* position in the calling program
    vpoints,        \* t_config: the working copy (a reference into lists)
    vlinks,         \* t_config: link name -> set of joint indices
    status,         \* t_config: joint index -> solved
    exprs,          \* t_config: the EStack being built (sequence of Expr)
    link_symbol,    \* t_config: next length symbol
    angle_symbol,   \* t_config: next angle symbol
    node,           \* t_config: loop index
    skip_times,     \* t_config: skips since the last placement
    around,         \* t_config: len(status) at loop entry
    emitted,        \* history: the status map each expression was emitted under
    idle,           \* history: iterations of the main loop since the last placement
    mapping,        \* expr_solving: names, given positions and given lengths
    angles,         \* expr_solving: the input angles, in degrees
    data_dict,      \* expr_solving: name -> value
    dof_input,      \* expr_solving: the inputs the stack asks for
    dof,            \* the value vpoint_dof returned
    parsed,         \* expr_parser: expressions evaluated so far
    solved_bfgs,    \* expr_solving: the solver's answer; <<>> is None
    outcome,        \* expr_solving: what the call returned or raised
    call,           \* which call of expr_solving this is
    first,          \* history: the outcome of the first call
    bfgs,           \* whether the external solver finds an answer for this problem
    void_except,    \* whether this build lets expr_parser's exceptions out
    dof_was,        \* history: the value vpoint_dof returned before the list grew
    heap,           \* OrderedSet: the Entry and OrderedSet objects
    iter,           \* OrderedSet: the iterator the caller holds
    changed,        \* history: an element was added or removed since iter was made
    ret,            \* OrderedSet: the last call, its arguments and what it gave
    ops,            \* OrderedSet: calls made on the iterated set
    graph,          \* graph layout: the Graph the caller passes
    cycles,         \* outer_loop: the list of cycles
    laid            \* outer_loop_layout: its local variables

tvars == <<vpoints, vlinks, status, exprs, link_symbol, angle_symbol,
           node, skip_times, around, emitted, idle>>

svars == <<mapping, angles, data_dict, dof_input, dof, parsed, solved_bfgs, outcome,
           call, first, bfgs, void_except>>

xvars == <<dof_was, heap, iter, changed, ret, ops, graph, cycles, laid>>

(***************************************************************************)
(* Numbers                                                                 *)
(***************************************************************************)
NaN == -7777777

IsNum(a) == a # NaN

Add(a, b) == IF a = NaN \/ b = NaN THEN NaN ELSE a + b
Sub(a, b) == IF a = NaN \/ b = NaN THEN NaN ELSE a - b
Mul(a, b) == IF a = NaN \/ b = NaN THEN NaN ELSE a * b
Abs(a) == IF a = NaN THEN NaN ELSE IF a < 0 THEN -a ELSE a
\* comparisons of doubles: FALSE as soon as one side is NaN
Gt(a, b) == a # NaN /\ b # NaN /\ a > b
Lt(a, b) == a # NaN /\ b # NaN /\ a < b
Eq(a, b) == a # NaN /\ b # NaN /\ a = b

\* rounded-down quotient; x / 0 is never reached with a defined x below
FloorDiv(a, b) == IF a = NaN \/ b = NaN \/ b = 0 THEN NaN
                  ELSE IF b > 0 THEN a \div b ELSE (-a) \div (-b)

RECURSIVE IsqrtIter(_, _, _)
IsqrtIter(n, lo, hi) ==
    IF lo >= hi THEN lo
    ELSE LET mid == (lo + hi + 1) \div 2
         IN  IF mid * mid <= n THEN IsqrtIter(n, mid, hi)
             ELSE IsqrtIter(n, lo, mid - 1)

\* sqrt of libc.math: NaN for a negative or NaN argument
sqrt(n) == IF n = NaN \/ n < 0 THEN NaN
           ELSE IsqrtIter(n, 0, IF n < 40000 THEN n ELSE 40000)

hypot(dx, dy) == sqrt(Add(Mul(dx, dx), Mul(dy, dy)))

\* angles: degrees in the joint data, quarter turns after radians()
radians(degree) == IF degree = NaN THEN NaN ELSE degree \div 90
cos(q) == IF q = NaN THEN NaN
          ELSE CASE q % 4 = 0 -> 1 [] q % 4 = 1 -> 0 [] q % 4 = 2 -> -1 [] OTHER -> 0
sin(q) == IF q = NaN THEN NaN
          ELSE CASE q % 4 = 0 -> 0 [] q % 4 = 1 -> 1 [] q % 4 = 2 -> 0 [] OTHER -> -1
\* atan2 in quarter turns: exact on the axes, the nearest axis elsewhere
atan2(y, x) == IF y = NaN \/ x = NaN THEN NaN
               ELSE IF Abs(x) >= Abs(y) THEN (IF x >= 0 THEN 0 ELSE 2)
               ELSE (IF y > 0 THEN 1 ELSE 3)

(***************************************************************************)
(* Sequences and maps                                                      *)
(***************************************************************************)
Range(s) == {s[i] : i \in DOMAIN s}
Min(S) == CHOOSE x \in S : \A y \in S : x <= y
Max(S) == CHOOSE x \in S : \A y \in S : x >= y

\* iteration order of a Python set of small non-negative ints: ascending
RECURSIVE SetToSeq(_)
SetToSeq(S) == IF S = {} THEN <<>>
               ELSE LET m == Min(S) IN <<m>> \o SetToSeq(S \ {m})

Tail1(s) == IF Len(s) = 0 THEN <<>> ELSE Tail(s)      \* s[1:]

EmptyMap == [k \in {} |-> 0]
Put(m, k, v) == [x \in DOMAIN m \cup {k} |-> IF x = k THEN v ELSE m[x]]

(***************************************************************************)
(* Joints (VPoint): the collaborator of the two modules                    *)
(***************************************************************************)
FRAME == "ground"                          \* VLink.FRAME
R == "R"
P == "P"
RP == "RP"

VPoint(type, links, angle, x, y) ==
    [type |-> type, links |-> links, angle |-> angle,
     c |-> <<(<<x, y>>), (<<x, y>>)>>, offset |-> FALSE]

\* VPoint.c_slider_joint(links, type, angle, x, y)
c_slider_joint(links, type, angle, x, y) == VPoint(type, links, angle, x, y)

\* VPoint.pin_grounded(): the pin side (links after the first) is on the frame
pin_grounded(v) == FRAME \in Range(Tail1(v.links))
\* VPoint.grounded(): one of its links is the frame
grounded(v) == FRAME \in Range(v.links)
\* VPoint.has_offset()
has_offset(v) == v.offset
\* VPoint.slope_angle(p, num1, num2), in degrees
slope_angle(v, p, num1, num2) ==
    LET c1 == v.c[num1 + 1]
        c2 == p.c[num2 + 1]
    IN  Mul(90, atan2(Sub(c2[2], c1[2]), Sub(c2[1], c1[1])))

Joint(l, i) == l[i + 1]                     \* vpoints[i]
Len0(l) == Len(l)
Idx(l) == 0 .. (Len(l) - 1)                 \* range(len(l))

(***************************************************************************)
(* Symbols and expressions (triangulation.pyx)                             *)
(***************************************************************************)
P_LABEL == "P_LABEL"
L_LABEL == "L_LABEL"
A_LABEL == "A_LABEL"
S_LABEL == "S_LABEL"
sym(label, index) == <<label, index>>
NoSym == <<"", 0>>

PLA == "PLA"
PLAP == "PLAP"
PLLP == "PLLP"
PLPP == "PLPP"
PXY == "PXY"
Funcs == {PLA, PLAP, PLLP, PLPP, PXY}

\* a symbol's name: "P3" is <<"P", 3>>; an unknown label gives the empty name
symbol_str(p) ==
    CASE p[1] = P_LABEL -> <<"P", p[2]>>
      [] p[1] = L_LABEL -> <<"L", p[2]>>
      [] p[1] = A_LABEL -> <<"a", p[2]>>
      [] p[1] = S_LABEL -> <<"S", p[2]>>
      [] OTHER -> <<"", 0>>

Expr(func, c1, v1, v2, c2, c3, c4, op) ==
    [func |-> func, c1 |-> c1, v1 |-> v1, v2 |-> v2,
     c2 |-> c2, c3 |-> c3, c4 |-> c4, op |-> op]

add_pla(c1, v1, v2, target) == Expr(PLA, c1, v1, v2, target, NoSym, NoSym, FALSE)
add_plap(c1, v1, v2, c2, target) == Expr(PLAP, c1, v1, v2, c2, target, NoSym, FALSE)
add_pllp(c1, v1, v2, c2, t) == Expr(PLLP, c1, v1, v2, c2, t, NoSym, FALSE)
add_plpp(c1, v1, c2, c3, t, op) == Expr(PLPP, c1, v1, NoSym, c2, c3, t, op)
add_pxy(c1, v1, v2, t) == Expr(PXY, c1, v1, v2, t, NoSym, NoSym, FALSE)

\* the symbol an expression writes
Target(e) ==
    CASE e.func \in {PLA, PXY} -> e.c2
      [] e.func \in {PLAP, PLLP} -> e.c3
      [] e.func = PLPP -> e.c4
      [] OTHER -> NoSym

\* the point symbols an expression reads
PointOperands(e) ==
    CASE e.func \in {PLA, PXY} -> {e.c1}
      [] e.func \in {PLAP, PLLP} -> {e.c1, e.c2}
      [] e.func = PLPP -> {e.c1, e.c2, e.c3}
      [] OTHER -> {}

(***************************************************************************)
(* t_config (triangulation.pyx): helpers                                   *)
(***************************************************************************)
_is_all_lock(st) == \A n \in DOMAIN st : st[n]

_clockwise(c1, c2, c3) ==
    LET val == (c2[2] - c1[2]) * (c3[1] - c2[1]) - (c2[1] - c1[1]) * (c3[2] - c2[2])
    IN  val = 0 \/ val > 0

\* the solved joints other than `n` on `link`, in iteration order
SolvedOn(link, n, vl, st) ==
    LET Ok(f) == st[f] /\ f # n
    IN  SelectSeq(SetToSeq(vl[link]), Ok)

RECURSIVE ReliableCandidates(_, _, _, _)
ReliableCandidates(links, n, vl, st) ==
    IF links = <<>> THEN <<>>
    ELSE (IF Cardinality(vl[Head(links)]) < 2 THEN <<>>
          ELSE SolvedOn(Head(links), n, vl, st))
         \o ReliableCandidates(Tail(links), n, vl, st)

\* the search stops after the first link of the joint
ReliableOnFirstLink(n, vp, vl, st) ==
    LET cand == ReliableCandidates(SubSeq(Joint(vp, n).links, 1, 1), n, vl, st)
    IN  [ok |-> Len(cand) >= 2,
         fa |-> IF Len(cand) >= 1 THEN cand[1] ELSE -1,
         fb |-> IF Len(cand) >= 2 THEN cand[2] ELSE -1]

_get_reliable_friend(n, vp, vl, st) ==
    LET cand == ReliableCandidates(Joint(vp, n).links, n, vl, st)
    IN  [ok |-> Len(cand) >= 2,
         fa |-> IF Len(cand) >= 1 THEN cand[1] ELSE -1,
         fb |-> IF Len(cand) >= 2 THEN cand[2] ELSE -1]

_get_not_base_friend(n, vp, vl, st) ==
    LET v == Joint(vp, n)
    IN  IF pin_grounded(v) \/ ~grounded(v) \/ has_offset(v) \/ Len(v.links) < 2
        THEN [ok |-> FALSE, fa |-> -1]
        ELSE LET Ok(f) == st[f]
                 cand == SelectSeq(SetToSeq(vl[v.links[2]]), Ok)
             IN  IF Len(cand) >= 1 THEN [ok |-> TRUE, fa |-> cand[1]]
                 ELSE [ok |-> FALSE, fa |-> -1]

_get_base_friend(n, vp, vl, st) ==
    LET v == Joint(vp, n)
    IN  IF Len(v.links) < 1 THEN [ok |-> FALSE, fa |-> -1, fb |-> -1]
        ELSE LET cand == SetToSeq(vl[v.links[1]])
             IN  [ok |-> Len(cand) >= 2,
                  fa |-> IF Len(cand) >= 1 THEN cand[1] ELSE -1,
                  fb |-> IF Len(cand) >= 2 THEN cand[2] ELSE -1]

_get_input_base(n, ins) ==
    LET hits == {i \in DOMAIN ins : ins[i][2] = n}
    IN  IF hits = {} THEN -1 ELSE ins[Min(hits)][1]

(***************************************************************************)
(* t_config: set-up (lines 263-337)                                        *)
(***************************************************************************)
\* list(vpoints_): a new list object holding the same joints
\* no copy: the working list is the caller's list
ListAlias(h, ref) == [lists |-> h, ref |-> ref]

ListCopy(h, ref) == [lists |-> Append(h, h[ref]), ref |-> Len(h) + 1]

LinkNames(vp) == UNION {Range(Joint(vp, i).links) : i \in Idx(vp)}

\* lines 268-282: the adjacency map
BuildVlinks(vp) ==
    [link \in LinkNames(vp) |-> {n \in Idx(vp) : link \in Range(Joint(vp, n).links)}]

\* lines 269-282: a joint without links, or a revolute joint on the frame, is solved
BuildStatus(st0, vp) ==
    [n \in DOMAIN st0 \cup Idx(vp) |->
        IF n \in Idx(vp)
        THEN LET v == Joint(vp, n)
             IN  IF Len(v.links) = 0 THEN TRUE
                 ELSE FRAME \in Range(v.links) /\ v.type = R
        ELSE st0[n]]

\* lines 294-307: joint n, a friend of the prismatic joint `base`
ReplaceFriend(vp, base, n) ==
    LET vpoint == Joint(vp, base)
        vpoint_ == Joint(vp, n)
        Keep(link_) == link_ \notin Range(vpoint.links)
    IN  IF n = base \/ vpoint_.type # R THEN vp
        ELSE [vp EXCEPT ![n + 1] =
                c_slider_joint(<<vpoint.links[1]>> \o SelectSeq(vpoint_.links, Keep),
                               RP, vpoint.angle, vpoint_.c[1][1], vpoint_.c[1][2])]

\* the element of a one-element set: Only({F(x) : x \in {e}}) is F(e) with e
\* evaluated once
Only(S) == CHOOSE x \in S : TRUE

RECURSIVE ReplaceOnLink(_, _, _)
ReplaceOnLink(vp, base, ns) ==
    IF ns = <<>> THEN vp
    ELSE Only({ReplaceOnLink(next, base, Tail(ns)) :
                  next \in {ReplaceFriend(vp, base, Head(ns))}})

RECURSIVE ReplaceOnLinks(_, _, _, _)
ReplaceOnLinks(vp, base, links, vl) ==
    IF links = <<>> THEN vp
    ELSE Only({ReplaceOnLinks(next, base, Tail(links), vl) :
                  next \in {ReplaceOnLink(vp, base, SetToSeq(vl[Head(links)]))}})

\* lines 287-307: every grounded P joint turns its R friends into RP joints
RECURSIVE NormalizeFrom(_, _, _)
NormalizeFrom(vp, base, vl) ==
    IF base >= Len(vp) THEN vp
    ELSE LET vpoint == Joint(vp, base)
         IN  IF vpoint.type # P \/ ~grounded(vpoint)
             THEN NormalizeFrom(vp, base + 1, vl)
             ELSE Only({NormalizeFrom(next, base + 1, vl) :
                           next \in {ReplaceOnLinks(vp, base, Tail1(vpoint.links), vl)}})

\* lines 309-313
pos(vp, i) == LET v == Joint(vp, i) IN IF v.type = R THEN v.c[1] ELSE v.c[2]

\* exprs.add_*: the expression, and (history) the status map it is emitted under
Emit(f, e) == [f EXCEPT !.exprs = Append(@, e), !.emitted = Append(@, f.status)]

\* the PLA of an input pair that does not advance the symbol counters
PlaceInputSameSymbols(f, base, n) ==
    LET g == Emit(f, add_pla(sym(P_LABEL, base), sym(L_LABEL, f.link_symbol),
                             sym(A_LABEL, f.angle_symbol), sym(P_LABEL, n)))
    IN  [g EXCEPT !.status = Put(@, n, TRUE)]

\* lines 355-366 and 320-328: the PLA of an input pair
PlaceInput(f, base, n) ==
    LET g == Emit(f, add_pla(sym(P_LABEL, base), sym(L_LABEL, f.link_symbol),
                             sym(A_LABEL, f.angle_symbol), sym(P_LABEL, n)))
    IN  [g EXCEPT !.status = Put(@, n, TRUE),
                  !.link_symbol = @ + 1,
                  !.angle_symbol = @ + 1]

\* lines 318-328: the input pairs whose base is solved
RECURSIVE InputPlas(_, _)
InputPlas(f, ins) ==
    IF ins = <<>> THEN f
    ELSE IF f.status[Head(ins)[1]]
         THEN InputPlas(PlaceInput(f, Head(ins)[1], Head(ins)[2]), Tail(ins))
         ELSE InputPlas(f, Tail(ins))

\* lines 263-337: the heap and the frame at the head of the main loop
SetupWith(cp, vl, ins, st0) ==
    LET vp0 == cp.lists[cp.ref]
        st == BuildStatus(st0, vp0)
        vp == NormalizeFrom(vp0, 0, vl)
        f0 == [vpoints |-> cp.ref, vlinks |-> vl, status |-> st, exprs |-> <<>>,
               link_symbol |-> 0, angle_symbol |-> 0, node |-> 0, skip_times |-> 0,
               around |-> 0, emitted |-> <<>>, idle |-> 0]
        f1 == InputPlas(f0, ins)
    IN  [lists |-> [cp.lists EXCEPT ![cp.ref] = vp],
         f |-> [f1 EXCEPT !.around = Cardinality(DOMAIN f1.status)]]

Setup(h, ref, ins, st0) ==
    Only({Only({SetupWith(cp, vl, ins, st0) : vl \in {BuildVlinks(cp.lists[cp.ref])}}) :
             cp \in {ListCopy(h, ref)}})

(***************************************************************************)
(* t_config: one iteration of the main loop (lines 339-470)                *)
(***************************************************************************)
input_targets(ins) == {ins[i][2] : i \in DOMAIN ins}

Skip(f) == [f EXCEPT !.skip_times = @ + 1, !.node = @ + 1]

\* lines 340-342
StepWrap(f) == [f EXCEPT !.node = 0]

\* lines 346-349
StepLocked(f) == [f EXCEPT !.node = @ + 1, !.skip_times = @ + 1]

\* lines 355-368: an input target waits for its base; its PLA leaves skip_times alone
StepInput(f, ins) ==
    LET base == _get_input_base(f.node, ins)
    IN  IF f.status[base]
        THEN [PlaceInput(f, base, f.node) EXCEPT !.node = @ + 1]
        ELSE Skip(f)

\* lines 370-385
StepRevolute(f, vp) ==
    LET r == _get_reliable_friend(f.node, vp, f.vlinks, f.status)
        cw == _clockwise(pos(vp, r.fa), pos(vp, f.node), pos(vp, r.fb))
        fa == IF cw THEN r.fa ELSE r.fb
        fb == IF cw THEN r.fb ELSE r.fa
    IN  IF ~r.ok THEN Skip(f)
        ELSE [Emit(f, add_pllp(sym(P_LABEL, fa), sym(L_LABEL, f.link_symbol),
                               sym(L_LABEL, f.link_symbol + 1), sym(P_LABEL, fb),
                               sym(P_LABEL, f.node)))
              EXCEPT !.status = Put(@, f.node, TRUE),
                     !.link_symbol = @ + 2,
                     !.skip_times = 0,
                     !.node = @ + 1]

\* lines 401-412: PXY for every friend of a placed P joint that is still unsolved
RECURSIVE PlaceFriends(_, _, _)
PlaceFriends(f, n, fs) ==
    IF fs = <<>> THEN f
    ELSE IF f.status[Head(fs)] THEN PlaceFriends(f, n, Tail(fs))
    ELSE PlaceFriends(
            [Emit(f, add_pxy(sym(P_LABEL, n), sym(L_LABEL, f.link_symbol),
                             sym(L_LABEL, f.link_symbol + 1), sym(P_LABEL, Head(fs))))
             EXCEPT !.status = Put(@, Head(fs), TRUE),
                    !.link_symbol = @ + 2],
            n, Tail(fs))

RECURSIVE FriendsOn(_, _)
FriendsOn(links, vl) ==
    IF links = <<>> THEN <<>>
    ELSE SetToSeq(vl[Head(links)]) \o FriendsOn(Tail(links), vl)

\* lines 386-413
StepPrismatic(f, vp) ==
    LET r == _get_not_base_friend(f.node, vp, f.vlinks, f.status)
        g == [Emit(f, add_pxy(sym(P_LABEL, r.fa), sym(L_LABEL, f.link_symbol),
                              sym(L_LABEL, f.link_symbol + 1), sym(P_LABEL, f.node)))
              EXCEPT !.status = Put(@, f.node, TRUE),
                     !.link_symbol = @ + 2]
        h == PlaceFriends(g, f.node, FriendsOn(Tail1(Joint(vp, f.node).links), f.vlinks))
    IN  IF ~r.ok THEN Skip(f)
        ELSE [h EXCEPT !.skip_times = 0, !.node = @ + 1]

\* lines 418-421: the 'S' point of a slider
SPoint(vp, n) ==
    LET angle == radians(Joint(vp, n).angle)
    IN  <<pos(vp, n)[1] + cos(angle), pos(vp, n)[2] + sin(angle)>>

\* lines 414-469
StepSlider(f, vp) ==
    LET n == f.node
        tmp == SPoint(vp, n)
        r == _get_not_base_friend(n, vp, f.vlinks, f.status)
        r2 == _get_base_friend(n, vp, f.vlinks, f.status)
        free == ~grounded(Joint(vp, n))
        \* lines 428-438: the slot is not on the frame
        cw1 == _clockwise(pos(vp, r2.fa), tmp, pos(vp, r2.fb))
        fb1 == IF free /\ ~cw1 THEN r2.fb ELSE r2.fa
        fd1 == IF free /\ ~cw1 THEN r2.fa ELSE r2.fb
        g == IF free
             THEN [Emit(f, add_pllp(sym(P_LABEL, fb1), sym(L_LABEL, f.link_symbol),
                                    sym(L_LABEL, f.link_symbol + 1), sym(P_LABEL, fd1),
                                    sym(P_LABEL, n)))
                   EXCEPT !.link_symbol = @ + 2]
             ELSE f
        \* lines 448-456: the PLLP of the 'S' point
        cw2 == _clockwise(pos(vp, fb1), tmp, pos(vp, n))
        fb2 == IF cw2 THEN fb1 ELSE n
        fc2 == IF cw2 THEN n ELSE fb1
        h == Emit(g, add_pllp(sym(P_LABEL, fb2), sym(L_LABEL, g.link_symbol),
                              sym(L_LABEL, g.link_symbol + 1), sym(P_LABEL, fc2),
                              sym(S_LABEL, n)))
        \* lines 458-466: the PLPP of the joint
        op == (pos(vp, r.fa)[1] - pos(vp, n)[1] > 0) # (Joint(vp, n).angle > 90)
        k == Emit(h, add_plpp(sym(P_LABEL, r.fa), sym(L_LABEL, g.link_symbol + 2),
                              sym(P_LABEL, n), sym(S_LABEL, n), sym(P_LABEL, n), op))
    IN  IF ~r.ok \/ ~r2.ok THEN Skip(f)
        ELSE [k EXCEPT !.status = Put(@, n, TRUE),
                       !.link_symbol = @ + 3,
                       !.skip_times = 0,
                       !.node = @ + 1]

\* the branch the loop takes (lines 339-351, 386, 414)
Branch(f, vp, ins) ==
    IF _is_all_lock(f.status) THEN "return"
    ELSE IF f.node \notin DOMAIN f.status THEN "wrap"
    ELSE IF f.skip_times >= f.around THEN "break"
    ELSE IF f.status[f.node] THEN "locked"
    ELSE IF f.node >= Len(vp) THEN "out_of_range"
    ELSE LET v == Joint(vp, f.node)
         IN  CASE v.type = R /\ f.node \in input_targets(ins) -> "input"
               [] v.type = R /\ f.node \notin input_targets(ins) -> "revolute"
               [] v.type = P -> "prismatic"
               [] v.type = RP -> "slider"
               [] OTHER -> "none"

\* (history) the iteration that took f to g placed a joint or not
Iterated(f, g) == [g EXCEPT !.idle = IF g.status = f.status THEN f.idle + 1 ELSE 0]

Step(f, vp, ins) ==
    LET b == Branch(f, vp, ins)
    IN  Iterated(f, CASE b = "wrap" -> StepWrap(f)
                      [] b = "locked" -> StepLocked(f)
                      [] b = "input" -> StepInput(f, ins)
                      [] b = "revolute" -> StepRevolute(f, vp)
                      [] b = "prismatic" -> StepPrismatic(f, vp)
                      [] b = "slider" -> StepSlider(f, vp)
                      [] OTHER -> [f EXCEPT !.node = @ + 1])

\* the loop run to its end
RECURSIVE RunLoop(_, _, _)
RunLoop(f, vp, ins) ==
    IF Branch(f, vp, ins) \in {"return", "break", "out_of_range"} THEN f
    ELSE RunLoop(Step(f, vp, ins), vp, ins)

EmptyFrame ==
    [vpoints |-> 0, vlinks |-> EmptyMap, status |-> EmptyMap, exprs |-> <<>>,
     link_symbol |-> 0, angle_symbol |-> 0, node |-> 0, skip_times |-> 0,
     around |-> 0, emitted |-> <<>>, idle |-> 0]

\* t_config(vpoints_, inputs, status): the heap, the stack and the status map after it
t_config(h, ref, ins, st0) ==
    IF Len(h[ref]) = 0 \/ Len(ins) = 0
    THEN [lists |-> h, exprs |-> <<>>, status |-> st0]
    ELSE LET s == Setup(h, ref, ins, st0)
             f == RunLoop(s.f, s.lists[s.f.vpoints], ins)
         IN  [lists |-> s.lists, exprs |-> f.exprs, status |-> f.status]

(***************************************************************************)
(* Geometry kernel (tinycadlib.pyx).  Each formula of the source is        *)
(* evaluated exactly and rounded once, at the end; dd stands for d * d.    *)
(***************************************************************************)
\* Coordinate.distance / distance(): hypot(x2 - x1, y2 - y1)
distance(c1, c2) == hypot(Sub(c2[1], c1[1]), Sub(c2[2], c1[2]))
tuple_distance(c1, c2) == distance(c1, c2)
\* Coordinate.is_nan(): isnan(self.x)
is_nan(c) == c[1] = NaN

Failed == <<NaN, NaN>>
NoPoint == <<>>                              \* c2 = None

\* lines 69-81
plap(c1, d0, a0, c2, inverse) ==
    LET a1 == IF c2 = NoPoint THEN 0
              ELSE atan2(Sub(c2[2], c1[2]), Sub(c2[1], c1[1]))
        a == IF inverse THEN Sub(a1, a0) ELSE Add(a1, a0)
    IN  <<Add(c1[1], Mul(d0, cos(a))), Add(c1[2], Mul(d0, sin(a)))>>

\* lines 84-116
pllp(c1, d0, d1, c2, inverse) ==
    LET dx == Sub(c2[1], c1[1])
        dy == Sub(c2[2], c1[2])
        dd == Add(Mul(dx, dx), Mul(dy, dy))
        sum == Add(d0, d1)
        dif == Abs(Sub(d0, d1))
        \* a = an / (2 d), h = sqrt(hn) / (2 d)
        an == Add(Sub(Mul(d0, d0), Mul(d1, d1)), dd)
        hn == Sub(Mul(4, Mul(dd, Mul(d0, d0))), Mul(an, an))
        h == sqrt(hn)
        xn == IF inverse THEN Add(Mul(an, dx), Mul(h, dy)) ELSE Sub(Mul(an, dx), Mul(h, dy))
        yn == IF inverse THEN Sub(Mul(an, dy), Mul(h, dx)) ELSE Add(Mul(an, dy), Mul(h, dx))
    IN  IF Lt(sum, 0) \/ Gt(dd, Mul(sum, sum)) THEN Failed       \* d > d0 + d1
        ELSE IF Lt(dd, Mul(dif, dif)) THEN Failed                 \* d < abs(d0 - d1)
        ELSE IF Eq(dd, 0) /\ Eq(d0, d1) THEN Failed               \* d == 0 and d0 == d1
        ELSE <<Add(c1[1], FloorDiv(xn, Mul(2, dd))),
               Add(c1[2], FloorDiv(yn, Mul(2, dd)))>>

\* lines 119-148
plpp(c1, d0, c2, c3, inverse) ==
    LET dx == Sub(c3[1], c2[1])
        dy == Sub(c3[2], c2[2])
        mm == Add(Mul(dx, dx), Mul(dy, dy))                      \* line_mag ^ 2
        \* u = un / mm
        un == Add(Mul(Sub(c1[1], c2[1]), dx), Mul(Sub(c1[2], c2[2]), dy))
        \* d = |cr| / line_mag, the distance of c1 from the line
        cr == Sub(Mul(Sub(c1[1], c2[1]), dy), Mul(Sub(c1[2], c2[2]), dx))
        rr == Mul(Mul(d0, d0), mm)
        s == sqrt(Sub(rr, Mul(cr, cr)))
        k == IF inverse THEN Sub(un, s) ELSE Add(un, s)
    IN  IF Eq(mm, 0) THEN Failed                                  \* 0 / 0
        ELSE IF Lt(d0, 0) \/ Gt(Mul(cr, cr), rr) THEN Failed      \* d > d0
        ELSE IF Eq(Mul(cr, cr), rr)                               \* d == d0
             THEN <<Add(c2[1], FloorDiv(Mul(un, dx), mm)),
                    Add(c2[2], FloorDiv(Mul(un, dy), mm))>>
        ELSE <<Add(c2[1], FloorDiv(Mul(k, dx), mm)),
               Add(c2[2], FloorDiv(Mul(k, dy), mm))>>

\* lines 151-153
pxy(c1, x, y) == <<Add(c1[1], x), Add(c1[2], y)>>

(***************************************************************************)
(* vpoint_dof (tinycadlib.pyx lines 233-260)                               *)
(***************************************************************************)
\* one pass of the loop body: [j1, j2, vlinks] after the joint
\* every joint counted as a pin
DofJointAsPin(acc, vpoint) ==
    IF ~(Len(vpoint.links) > 1) THEN acc
    ELSE [acc EXCEPT !.vlinks = @ \cup Range(vpoint.links),
                     !.j1 = @ + Len(vpoint.links) - 1]

DofJoint(acc, vpoint) ==
    LET link_count == Len(vpoint.links)
        seen == [acc EXCEPT !.vlinks = @ \cup Range(vpoint.links)]
    IN  IF ~(link_count > 1) THEN acc
        ELSE CASE vpoint.type = R -> [seen EXCEPT !.j1 = @ + link_count - 1]
               [] vpoint.type = P ->
                    [seen EXCEPT !.j1 = @ + (IF link_count > 2 THEN link_count - 2 ELSE 0) + 1]
               [] vpoint.type = RP ->
                    [seen EXCEPT !.j1 = @ + (IF link_count > 2 THEN link_count - 2 ELSE 0),
                                 !.j2 = @ + 1]
               [] OTHER -> seen

RECURSIVE DofLoop(_, _)
DofLoop(acc, vp) ==
    IF vp = <<>> THEN acc ELSE DofLoop(DofJoint(acc, Head(vp)), Tail(vp))

vpoint_dof(vp) ==
    LET acc == DofLoop([j1 |-> 0, j2 |-> 0, vlinks |-> {"ground"}], vp)
    IN  3 * (Cardinality(acc.vlinks) - 1) - (2 * acc.j1) - acc.j2

(***************************************************************************)
(* data_collecting (tinycadlib.pyx lines 278-447)                          *)
(*                                                                         *)
(* The mapping dict has keys of three kinds, kept apart here:              *)
(*   names   : joint index -> symbol name          (int keys)              *)
(*   values  : symbol name -> position or number   (str keys)              *)
(*   lengths : {a, b} -> link length               (tuple keys)            *)
(***************************************************************************)
Has(m, k) == k \in DOMAIN m                \* k in m

KeyError == "KeyError"

\* lines 263-270: the first joint on the primary link of `n`; 0 when there is none
base_friend(n, vp) ==
    LET hits == {i \in Idx(vp) : Len(Joint(vp, n).links) # 0
                                 /\ Joint(vp, n).links[1] \in Range(Joint(vp, i).links)}
    IN  IF hits = {} THEN 0 ELSE Min(hits)

\* lines 313-334: every P joint turns its R friends into RP joints
RECURSIVE NormalizeAll(_, _, _)
NormalizeAll(vp, base, vl) ==
    IF base >= Len(vp) THEN vp
    ELSE LET vpoint == Joint(vp, base)
         IN  IF vpoint.type # P
             THEN NormalizeAll(vp, base + 1, vl)
             ELSE NormalizeAll(ReplaceOnLinks(vp, base, Tail1(vpoint.links), vl),
                               base + 1, vl)

\* lines 337-348: the reverse mapping of the int keys (a later key wins)
ReverseNames(mp) ==
    [v \in Range(mp.names) |-> Max({k \in DOMAIN mp.names : mp.names[k] = v})]

\* lines 342-346: the positions the mapping gives by name
GivenPoints(mp) ==
    [v \in {w \in Range(mp.names) : Has(mp.values, w)} |-> mp.values[v]]

\* lines 360-371: the sliders, in index order
Sliders(vp) == SetToSeq({i \in Idx(vp) : Joint(vp, i).type = RP})

\* lines 364-370: the virtual slot point of slider i
SlotPoint(vp, i) ==
    LET vpoint == Joint(vp, i)
        bf == Joint(vp, base_friend(i, vp))
        angle == radians(Add(Sub(vpoint.angle, slope_angle(vpoint, bf, 1, 0)),
                             slope_angle(vpoint, bf, 0, 0)))
    IN  <<Add(vpoint.c[2][1], cos(angle)), Add(vpoint.c[2][2], sin(angle))>>

\* lines 350-371: pos, the joints first and then the slot points
PosList(vp) ==
    [i \in 1 .. Len(vp) |-> pos(vp, i - 1)]
    \o [k \in 1 .. Len(Sliders(vp)) |-> SlotPoint(vp, Sliders(vp)[k])]

\* line 371: mapping_r[f'S{i}'] = len(pos) - 1
SlotNames(vp) ==
    [v \in {<<"S", i>> : i \in Range(Sliders(vp))} |->
        Len(vp) - 1 + CHOOSE k \in DOMAIN Sliders(vp) : Sliders(vp)[k] = v[2]]

\* the link length of a pair: the specified one, else the distance in pos
LinkLength(mp, ps, a, b) ==
    IF Has(mp.lengths, {a, b}) THEN mp.lengths[{a, b}]
    ELSE tuple_distance(ps[a + 1], ps[b + 1])

\* data_dict[name] = pos[mapping_r[name]] unless the name is there already
Seed(dd, mr, ps, name) == IF Has(dd, name) THEN dd ELSE Put(dd, name, ps[mr[name] + 1])

\* the symbol of the joint an expression places
TargetName(e) ==
    CASE e.func \in {PLA, PXY} -> symbol_str(e.c2)
      [] e.func \in {PLAP, PLLP} -> symbol_str(e.c3)
      [] e.func = PLPP -> symbol_str(e.c4)
      [] OTHER -> symbol_str(e.c1)

\* mapping_r[name] and pos[mapping_r[name]] exist
Known(mr, ps, name) == Has(mr, name) /\ mr[name] + 1 \in DOMAIN ps

\* lines 378-440, one expression: [data_dict, dof, err].  A name that
\* mapping_r does not hold ends the call with a KeyError.
CollectExpr(d, e, mp, mr, ps) ==
    LET c1 == symbol_str(e.c1)
        c2 == symbol_str(e.c2)
        n == mr[c1]
        target == mr[TargetName(e)]
        d1 == [d EXCEPT !.data_dict = Seed(@, mr, ps, c1)]
        \* "Link 1"
        d2 == [d1 EXCEPT !.data_dict =
                  Put(@, symbol_str(e.v1), LinkLength(mp, ps, n, target))]
        \* "Point 2"
        d3 == [d2 EXCEPT !.data_dict = Seed(@, mr, ps, c2)]
        fail == [d EXCEPT !.err = KeyError]
    IN  IF ~Known(mr, ps, c1) THEN fail
        ELSE IF e.func \notin Funcs THEN d1
        ELSE IF ~Known(mr, ps, TargetName(e)) THEN fail
        ELSE CASE e.func = PLA -> [d2 EXCEPT !.dof = @ + 1]
               [] e.func = PLAP ->
                    IF Has(d2.data_dict, c2) THEN [d2 EXCEPT !.dof = @ + 1]
                    ELSE IF ~Known(mr, ps, c2) THEN fail
                    ELSE [d3 EXCEPT !.dof = @ + 1]
               [] e.func = PLLP ->
                    IF ~Known(mr, ps, c2) THEN fail
                    ELSE LET d4 == [d2 EXCEPT !.data_dict =
                                       Put(@, symbol_str(e.v2),
                                           LinkLength(mp, ps, mr[c2], target))]
                         IN  [d4 EXCEPT !.data_dict = Seed(@, mr, ps, c2)]
               [] e.func = PLPP ->
                    IF Has(d2.data_dict, c2) THEN d2
                    ELSE IF ~Known(mr, ps, c2) THEN fail
                    ELSE d3
               [] e.func = PXY ->
                    LET x == IF Has(mp.values, symbol_str(e.v1))
                             THEN mp.values[symbol_str(e.v1)]
                             ELSE Sub(ps[target + 1][1], ps[n + 1][1])
                        y == IF Has(mp.values, symbol_str(e.v2))
                             THEN mp.values[symbol_str(e.v2)]
                             ELSE Sub(ps[target + 1][2], ps[n + 1][2])
                    IN  [d1 EXCEPT !.data_dict =
                            Put(Put(@, symbol_str(e.v1), x), symbol_str(e.v2), y)]

RECURSIVE CollectExprs(_, _, _, _, _)
CollectExprs(d, es, mp, mr, ps) ==
    IF es = <<>> \/ d.err # "" THEN d
    ELSE CollectExprs(CollectExpr(d, Head(es), mp, mr, ps), Tail(es), mp, mr, ps)

\* lines 443-445: the grounded R joints keep their position
RECURSIVE CollectGrounded(_, _, _, _)
CollectGrounded(d, vp, i, mp) ==
    IF i >= Len(vp) \/ d.err # "" THEN d
    ELSE LET vpoint == Joint(vp, i)
         IN  IF grounded(vpoint) /\ vpoint.type = R
             THEN IF Has(mp.names, i)
                  THEN CollectGrounded(
                          [d EXCEPT !.data_dict = Put(@, mp.names[i], vpoint.c[1])],
                          vp, i + 1, mp)
                  ELSE [d EXCEPT !.err = KeyError]
             ELSE CollectGrounded(d, vp, i + 1, mp)

\* lines 299-305: link name -> list of joints, in index order
BuildVlinkLists(vp) == BuildVlinks(vp)

\* the counter keeps the count of the call before
dof_kept == dof_input

\* line 374: the input counter starts at zero
dof_0 == 0

\* data_collecting(exprs, mapping, vpoints_): [lists, data_dict, dof, err]
data_collecting(h, es, mp, ref) ==
    LET cp == ListCopy(h, ref)
        vp == NormalizeAll(cp.lists[cp.ref], 0, BuildVlinkLists(cp.lists[cp.ref]))
        mr == SlotNames(vp) @@ ReverseNames(mp)
        ps == PosList(vp)
        d0 == [data_dict |-> GivenPoints(mp), dof |-> dof_0, err |-> ""]
        d1 == CollectExprs(d0, es, mp, mr, ps)
        d2 == CollectGrounded(d1, vp, 0, mp)
    IN  [lists |-> [cp.lists EXCEPT ![cp.ref] = vp],
         data_dict |-> d2.data_dict, dof |-> d2.dof, err |-> d2.err]

(***************************************************************************)
(* expr_parser (tinycadlib.pyx lines 166-230)                              *)
(***************************************************************************)
Unsupported == "unsupported function"

\* the names one expression reads from data_dict
Reads(e) ==
    CASE e.func = PLA -> {symbol_str(e.c1), symbol_str(e.v1), symbol_str(e.v2)}
      [] e.func = PLAP -> {symbol_str(e.c1), symbol_str(e.v1), symbol_str(e.v2),
                           symbol_str(e.c2)}
      [] e.func = PLLP -> {symbol_str(e.c1), symbol_str(e.c2), symbol_str(e.v1),
                           symbol_str(e.v2)}
      [] e.func = PLPP -> {symbol_str(e.c1), symbol_str(e.c2), symbol_str(e.c3),
                           symbol_str(e.v1)}
      [] e.func = PXY -> {symbol_str(e.c1), symbol_str(e.v1), symbol_str(e.v2)}
      [] OTHER -> {}

\* lines 178-227: the kernel call of one expression
Evaluate(dd, e) ==
    CASE e.func = PLA ->
            plap(dd[symbol_str(e.c1)], dd[symbol_str(e.v1)], dd[symbol_str(e.v2)],
                 NoPoint, FALSE)
      [] e.func = PLAP ->
            plap(dd[symbol_str(e.c1)], dd[symbol_str(e.v1)], dd[symbol_str(e.v2)],
                 dd[symbol_str(e.c2)], e.op)
      [] e.func = PLLP ->
            pllp(dd[symbol_str(e.c1)], dd[symbol_str(e.v1)], dd[symbol_str(e.v2)],
                 dd[symbol_str(e.c2)], e.op)
      [] e.func = PLPP ->
            plpp(dd[symbol_str(e.c1)], dd[symbol_str(e.v1)], dd[symbol_str(e.c2)],
                 dd[symbol_str(e.c3)], e.op)
      [] e.func = PXY ->
            pxy(dd[symbol_str(e.c1)], dd[symbol_str(e.v1)], dd[symbol_str(e.v2)])

\* lines 175-230, one expression: [data_dict, err]
ParseExpr(dd, e) ==
    IF e.func \notin Funcs THEN [data_dict |-> dd, err |-> Unsupported]
    ELSE IF \E name \in Reads(e) : ~Has(dd, name) THEN [data_dict |-> dd, err |-> KeyError]
    ELSE [data_dict |-> Put(dd, TargetName(e), Evaluate(dd, e)), err |-> ""]

\* expr_parser(exprs, data_dict): the dictionary after the replay, and the error that
\* stopped it
RECURSIVE expr_parser(_, _)
expr_parser(es, dd) ==
    IF es = <<>> THEN [data_dict |-> dd, err |-> ""]
    ELSE LET r == ParseExpr(dd, Head(es))
         IN  IF r.err # "" THEN r ELSE expr_parser(Tail(es), r.data_dict)

(***************************************************************************)
(* expr_solving (tinycadlib.pyx lines 450-560)                             *)
(***************************************************************************)
WrongNumber == "wrong number of input parameters"
WrongDriver == "wrong driver definition."
SketchFailure == "result contains failure from sketch solve"
PointFailure == "result contains failure: Point"

\* line 480
SolvingNames(mp) == ReverseNames(mp)

\* no check of the drivers
DriverUnchecked(e, mr, vp) == ""

\* lines 485-495, one expression: "" or the error it raises
DriverCheck(e, mr, vp) ==
    LET c1 == symbol_str(e.c1)
        t == IF e.func = PLA THEN symbol_str(e.c2) ELSE symbol_str(e.c3)
        InList(name) == Has(mr, name) /\ mr[name] \in Idx(vp)
    IN  IF e.func \notin {PLA, PLAP} THEN ""
        ELSE IF ~InList(t) \/ ~InList(c1) THEN KeyError
        ELSE IF grounded(Joint(vp, mr[c1])) /\ grounded(Joint(vp, mr[t])) THEN WrongDriver
        ELSE ""

RECURSIVE DriverChecks(_, _, _)
DriverChecks(es, mr, vp) ==
    IF es = <<>> THEN ""
    ELSE LET r == DriverCheck(Head(es), mr, vp)
         IN  IF r # "" THEN r ELSE DriverChecks(Tail(es), mr, vp)

\* lines 500-501
RECURSIVE SetAngles(_, _, _)
SetAngles(dd, as, i) ==
    IF i >= Len(as) THEN dd
    ELSE SetAngles(Put(dd, <<"a", i>>, radians(as[i + 1])), as, i + 1)

\* lines 511-516: the joints that have a closed-form value
KnownPoints(dd, mp, vp) ==
    [i \in {j \in Idx(vp) : Has(dd, mp.names[j])} |-> dd[mp.names[i]]]

\* vpoint_solving(vpoints, {}, p_data_dict): the answer of the external solver when it
\* finds one; a joint it was given keeps its position
vpoint_solving(vp, p_data_dict) ==
    [k \in 1 .. Len(vp) |->
        LET at == IF Has(p_data_dict.points, k - 1) THEN p_data_dict.points[k - 1]
                  ELSE <<100 + k, 100>>
        IN  IF Joint(vp, k - 1).type = R THEN at ELSE <<at, at>>]

\* an outcome: the exception raised, with the joint it names, or the list returned
Raise(err) == [kind |-> "raise", err |-> <<err, -1>>, value |-> <<>>]
RaisePoint(i) == [kind |-> "raise", err |-> <<PointFailure, i>>, value |-> <<>>]
Return(value) == [kind |-> "return", err |-> <<"", -1>>, value |-> value]
Running == [kind |-> "", err |-> <<"", -1>>, value |-> <<>>]

\* lines 540-559: the entry of joint i
Entry(dd, names, vp, answer, i) ==
    LET vpoint == Joint(vp, i)
    IN  IF Has(dd, names[i])
        THEN IF vpoint.type = R THEN dd[names[i]]
             ELSE <<vpoint.c[1], dd[names[i]]>>
        ELSE IF answer # <<>>
             THEN IF vpoint.type = R THEN answer[i + 1]
                  ELSE <<answer[i + 1][1], answer[i + 1][2]>>
        ELSE IF vpoint.type = R THEN vpoint.c[1] ELSE vpoint.c

\* the assembly without the isnan test
FormatUnchecked(dd, names, vp, answer) ==
    Return([k \in 1 .. Len(vp) |-> Entry(dd, names, vp, answer, k - 1)])

\* lines 536-560: the positions list, or the first failed joint
Format(dd, names, vp, answer) ==
    LET bad == {i \in Idx(vp) : Has(dd, names[i]) /\ is_nan(dd[names[i]])}
    IN  IF bad # {} THEN RaisePoint(Min(bad))
        ELSE Return([k \in 1 .. Len(vp) |-> Entry(dd, names, vp, answer, k - 1)])


(***************************************************************************)
(* The mechanisms and inputs the model draws                               *)
(***************************************************************************)
MaxInputs == 2

\* the standard four-bar linkage
FourBar ==
    << VPoint(R, <<"ground", "L1">>, 0, 0, 0),
       VPoint(R, <<"L1", "L2">>, 0, 0, 3),
       VPoint(R, <<"L2", "L3">>, 0, 4, 3),
       VPoint(R, <<"ground", "L3">>, 0, 4, 0) >>

\* a five-bar linkage (two degrees of freedom)
FiveBar ==
    << VPoint(R, <<"ground", "L1">>, 0, 0, 0),
       VPoint(R, <<"L1", "L2">>, 0, 0, 3),
       VPoint(R, <<"L2", "L3">>, 0, 4, 6),
       VPoint(R, <<"L3", "L4">>, 0, 8, 3),
       VPoint(R, <<"ground", "L4">>, 0, 8, 0) >>

\* crank and slider: the slider is an RP joint on a horizontal slot of the frame
CrankSlider ==
    << VPoint(R, <<"ground", "L1">>, 0, 0, 0),
       VPoint(R, <<"L1", "L2">>, 0, 0, 3),
       VPoint(RP, <<"ground", "L2">>, 0, 4, 0) >>

\* a grounded P joint whose block L3 carries two pins
SliderBlock ==
    << VPoint(R, <<"ground", "L1">>, 0, 0, 0),
       VPoint(R, <<"L1", "L2">>, 0, 0, 3),
       VPoint(P, <<"ground", "L3">>, 0, 4, 0),
       VPoint(R, <<"L2", "L3">>, 0, 4, 0),
       VPoint(R, <<"L3">>, 0, 6, 0) >>

\* two sliders on the frame, the first one reachable only through the second
TwoSliders ==
    << VPoint(RP, <<"ground", "L3">>, 0, 8, 0),
       VPoint(RP, <<"ground", "L2">>, 0, 4, 0),
       VPoint(R, <<"ground", "L1">>, 0, 0, 0),
       VPoint(R, <<"L1", "L2">>, 0, 0, 3),
       VPoint(R, <<"L2", "L3">>, 0, 8, 3) >>

\* a P joint off the frame: t_config never places it
FreeSlider ==
    << VPoint(R, <<"ground", "L1">>, 0, 0, 0),
       VPoint(R, <<"L1", "L2">>, 0, 0, 3),
       VPoint(P, <<"L2", "L3">>, 0, 4, 3) >>

\* a four-bar whose coupler carries a P joint off the frame
CouplerSlider == FourBar \o << VPoint(P, <<"L2", "L4">>, 0, 2, 3) >>

\* a crank, and a pin held by two links that both end on the same frame pin
DoubleLink ==
    << VPoint(R, <<"ground", "L1", "L2">>, 0, 0, 0),
       VPoint(R, <<"L1", "L2">>, 0, 0, 3),
       VPoint(R, <<"ground", "L3">>, 0, 4, 0),
       VPoint(R, <<"L3">>, 0, 4, 3) >>

\* a slider whose slot is on the coupler L2, held by the link L4 from a frame pin
FloatingSlider ==
    << VPoint(R, <<"ground", "L1">>, 0, 0, 0),
       VPoint(R, <<"L1", "L2">>, 0, 0, 3),
       VPoint(R, <<"L2">>, 0, 4, 3),
       VPoint(RP, <<"L2", "L4">>, 0, 2, 3),
       VPoint(R, <<"ground", "L4">>, 0, 2, 0) >>

\* a crank whose end pin sits on the block L3 of a vertical slider on the frame; on
\* the crank a second P joint, off the frame, whose block L6 carries a pin
TiltedBlock ==
    << VPoint(R, <<"ground", "L1">>, 0, 0, 0),
       VPoint(R, <<"L1", "L3">>, 0, 0, 3),
       VPoint(P, <<"ground", "L3">>, 90, 0, 4),
       VPoint(P, <<"L1", "L6">>, 0, 0, 2),
       VPoint(R, <<"L6">>, 0, 0, 5) >>

Mechanisms ==
    {<<>>, FourBar, FiveBar, CrankSlider, SliderBlock, TwoSliders, FreeSlider, CouplerSlider,
     DoubleLink, FloatingSlider, TiltedBlock}

\* input pairs: two different joints on a common link
DrivePairs(vp) ==
    {<<b, n>> \in Idx(vp) \X Idx(vp) :
        b # n /\ Range(Joint(vp, b).links) \cap Range(Joint(vp, n).links) # {}}

SeqsUpTo(S, k) == UNION {[1 .. m -> S] : m \in 0 .. k}

InputLists(vp) ==
    {ins \in SeqsUpTo(DrivePairs(vp), MaxInputs) :
        \A i, j \in DOMAIN ins : i # j => ins[i] # ins[j]}

(***************************************************************************)
(* Spec: a call t_config(vpoints_, inputs), followed step by step          *)
(***************************************************************************)
Frame ==
    [vpoints |-> vpoints, vlinks |-> vlinks, status |-> status, exprs |-> exprs,
     link_symbol |-> link_symbol, angle_symbol |-> angle_symbol, node |-> node,
     skip_times |-> skip_times, around |-> around, emitted |-> emitted, idle |-> idle]

Commit(f) ==
    /\ vpoints' = f.vpoints
    /\ vlinks' = f.vlinks
    /\ status' = f.status
    /\ exprs' = f.exprs
    /\ link_symbol' = f.link_symbol
    /\ angle_symbol' = f.angle_symbol
    /\ node' = f.node
    /\ skip_times' = f.skip_times
    /\ around' = f.around
    /\ emitted' = f.emitted
    /\ idle' = f.idle

\* before the call: no working list and no stack
NoLocals ==
    /\ vpoints = EmptyFrame.vpoints
    /\ vlinks = EmptyFrame.vlinks
    /\ exprs = EmptyFrame.exprs
    /\ link_symbol = EmptyFrame.link_symbol
    /\ angle_symbol = EmptyFrame.angle_symbol
    /\ node = EmptyFrame.node
    /\ skip_times = EmptyFrame.skip_times
    /\ around = EmptyFrame.around
    /\ emitted = EmptyFrame.emitted
    /\ idle = EmptyFrame.idle

\* ... and the caller passes no status map
NoFrame == NoLocals /\ status = EmptyFrame.status

\* before expr_solving is called
NoCall ==
    /\ data_dict = EmptyMap
    /\ dof_input = 0
    /\ dof = 0
    /\ parsed = 0
    /\ solved_bfgs = <<>>
    /\ outcome = Running
    /\ call = 0
    /\ first = Running
    /\ bfgs = "unset"
    /\ void_except = "unset"
    /\ dof_was = 0

\* no iterator is held
NoIterator ==
    /\ iter = [oset |-> 0, curr |-> 0, si_used |-> 0, reversed |-> FALSE]
    /\ changed = FALSE
    /\ ops = 0

\* no OrderedSet exists
NoSets ==
    /\ heap = [entries |-> <<>>, osets |-> <<>>]
    /\ ret = [op |-> "", arg |-> <<>>, value |-> <<>>]
    /\ NoIterator

\* outer_loop_layout is not running; passes is history, the number of passes of
\* its loop modulo 2
NoLayout == [nodes |-> <<>>, line |-> <<>>, used_nodes |-> <<>>, pos |-> <<>>,
             o_loop |-> <<>>, build |-> "", passes |-> 0]

\* no Graph exists
NoGraph ==
    /\ graph = [nodes |-> <<>>, adj |-> <<>>]
    /\ cycles = <<>>
    /\ laid = NoLayout

NoMapping == [names |-> EmptyMap, values |-> EmptyMap, lengths |-> EmptyMap]

vars == <<lists, vpoints_, inputs, pc, tvars, svars, xvars>>

Init ==
    /\ \E m \in Mechanisms :
        /\ lists = <<m>>
        /\ inputs \in InputLists(m)
    /\ vpoints_ = 1
    /\ pc = "t_config"
    /\ NoFrame
    /\ NoCall
    /\ NoSets
    /\ NoGraph
    /\ mapping = NoMapping
    /\ angles = <<>>

WorkList == lists[vpoints]               \* the list object t_config works on

\* lines 259-262: nothing to do without joints or without inputs
TConfigEmpty ==
    /\ pc = "t_config"
    /\ Len(lists[vpoints_]) = 0 \/ Len(inputs) = 0
    /\ pc' = "t_done"
    /\ UNCHANGED <<lists, vpoints_, inputs, tvars, svars, xvars>>

\* lines 263-337
TConfigSetup ==
    /\ pc = "t_config"
    /\ Len(lists[vpoints_]) # 0 /\ Len(inputs) # 0
    /\ \E s \in {Setup(lists, vpoints_, inputs, status)} :
        /\ lists' = s.lists
        /\ \E g \in {s.f} : Commit(g)
    /\ pc' = "t_loop"
    /\ UNCHANGED <<vpoints_, inputs, svars, xvars>>

InLoop(b) == pc = "t_loop" /\ Branch(Frame, WorkList, inputs) = b

\* line 339: every joint is solved
LoopReturn ==
    /\ InLoop("return")
    /\ pc' = "t_done"
    /\ UNCHANGED <<lists, vpoints_, inputs, tvars, svars, xvars>>

\* lines 344-345: a whole pass without a placement
LoopBreak ==
    /\ InLoop("break")
    /\ pc' = "t_done"
    /\ UNCHANGED <<lists, vpoints_, inputs, tvars, svars, xvars>>

LoopWrap ==
    /\ InLoop("wrap")
    /\ \E g \in {Iterated(Frame, StepWrap(Frame))} : Commit(g)
    /\ UNCHANGED <<lists, vpoints_, inputs, pc, svars, xvars>>

LoopLocked ==
    /\ InLoop("locked")
    /\ \E g \in {Iterated(Frame, StepLocked(Frame))} : Commit(g)
    /\ UNCHANGED <<lists, vpoints_, inputs, pc, svars, xvars>>

LoopInput ==
    /\ InLoop("input")
    /\ \E g \in {Iterated(Frame, StepInput(Frame, inputs))} : Commit(g)
    /\ UNCHANGED <<lists, vpoints_, inputs, pc, svars, xvars>>

LoopRevolute ==
    /\ InLoop("revolute")
    /\ \E g \in {Iterated(Frame, StepRevolute(Frame, WorkList))} : Commit(g)
    /\ UNCHANGED <<lists, vpoints_, inputs, pc, svars, xvars>>

LoopPrismatic ==
    /\ InLoop("prismatic")
    /\ \E g \in {Iterated(Frame, StepPrismatic(Frame, WorkList))} : Commit(g)
    /\ UNCHANGED <<lists, vpoints_, inputs, pc, svars, xvars>>

LoopSlider ==
    /\ InLoop("slider")
    /\ \E g \in {Iterated(Frame, StepSlider(Frame, WorkList))} : Commit(g)
    /\ UNCHANGED <<lists, vpoints_, inputs, pc, svars, xvars>>

Next ==
    \/ TConfigEmpty
    \/ TConfigSetup
    \/ LoopReturn
    \/ LoopBreak
    \/ LoopWrap
    \/ LoopLocked
    \/ LoopInput
    \/ LoopRevolute
    \/ LoopPrismatic
    \/ LoopSlider

Spec == Init /\ [][Next]_vars

(***************************************************************************)
(* Properties of t_config                                                  *)
(***************************************************************************)
\* the expressions of the stack that place joint n
PlacedBy(n) == {k \in DOMAIN exprs : Target(exprs[k]) = sym(P_LABEL, n)}

FourBarCall == lists[vpoints_] = FourBar /\ inputs = << <<0, 1>> >>

\* C1: for the standard four-bar linkage and the single input pair (0, 1), t_config
\* returns a stack in which joint 1 is placed by one PLA from joint 0 and joint 2 by
\* one PLLP from joints 1 and 3, and every joint's status is true at return.
C1_FourBarStack ==
    (pc = "t_done" /\ FourBarCall) =>
        /\ \E k \in DOMAIN exprs :
            /\ PlacedBy(1) = {k}
            /\ exprs[k].func = PLA
            /\ exprs[k].c1 = sym(P_LABEL, 0)
        /\ \E k \in DOMAIN exprs :
            /\ PlacedBy(2) = {k}
            /\ exprs[k].func = PLLP
            /\ {exprs[k].c1, exprs[k].c2} = {sym(P_LABEL, 1), sym(P_LABEL, 3)}
        /\ DOMAIN status = 0 .. 3
        /\ \A n \in DOMAIN status : status[n]

\* the four-bar call has returned with a stack of two expressions
C1_Witness == pc = "t_done" /\ FourBarCall /\ Len(exprs) = 2

\* expression k reads joint n, which is not the joint k places, before n is solved
ReadsUnsolved(k, n) ==
    /\ \E o \in PointOperands(exprs[k]) : o[2] = n
    /\ n # Target(exprs[k])[2]
    /\ ~emitted[k][n]

\* C2: in every stack returned by t_config, every point operand of every expression,
\* other than the joint that expression places and that joint's slot point S, is
\* solved when the expression is emitted.
C2_OperandsSolved ==
    pc = "t_done" => \A k \in DOMAIN exprs : \A n \in DOMAIN emitted[k] : ~ReadsUnsolved(k, n)


(***************************************************************************)
(* The caller of expr_solving: a stack from t_config or a hand-built one,  *)
(* then expr_solving twice with the same arguments                         *)
(***************************************************************************)
MaxAngles == 2

Degrees == {0, 90}

AngleLists == SeqsUpTo(Degrees, MaxAngles)

\* mapping {0: 'P0', 1: 'P1', ...}
Names(vp) == [i \in Idx(vp) |-> <<"P", i>>]

DefaultMapping(vp) == [names |-> Names(vp), values |-> EmptyMap, lengths |-> EmptyMap]

\* ... with the length of the link between joints 1 and 2 given as 1
ShortLink(vp) == [DefaultMapping(vp) EXCEPT !.lengths = [k \in {{1, 2}} |-> 1]]

\* ... with the position of joint 1 given by name
Placed(vp) == [DefaultMapping(vp) EXCEPT !.values = [k \in {<<"P", 1>>} |-> <<3, 0>>]]

\* ... without a name for the last joint
Unnamed(vp) ==
    [DefaultMapping(vp) EXCEPT !.names = [i \in Idx(vp) \ {Len(vp) - 1} |-> <<"P", i>>]]

Mappings(vp) ==
    IF Len(vp) < 3 THEN {DefaultMapping(vp)}
    ELSE {DefaultMapping(vp), ShortLink(vp), Placed(vp), Unnamed(vp)}

\* drivers on a pin of the frame
SolveInputs(vp) ==
    {ins \in InputLists(vp) :
        \A k \in DOMAIN ins : LET b == Joint(vp, ins[k][1])
                             IN  b.type = R /\ grounded(b)}

\* stacks written by hand: a PLAP and a function the interpreter does not know
HandStacks(vp) ==
    IF Len(vp) < 3 THEN {}
    ELSE { << add_plap(sym(P_LABEL, 0), sym(L_LABEL, 0), sym(A_LABEL, 0),
                       sym(P_LABEL, Len(vp) - 1), sym(P_LABEL, 1)) >>,
           << Expr("PLXY", sym(P_LABEL, 0), sym(L_LABEL, 0), sym(A_LABEL, 0),
                   sym(P_LABEL, 1), NoSym, NoSym, FALSE) >>,
           << add_plap(sym(P_LABEL, 0), sym(L_LABEL, 0), sym(A_LABEL, 0),
                       sym(P_LABEL, Len(vp) - 1), sym(P_LABEL, 1)),
              Expr("PLXY", sym(P_LABEL, 1), sym(L_LABEL, 1), sym(A_LABEL, 1),
                   sym(P_LABEL, 2), NoSym, NoSym, FALSE) >> }

InitSolve ==
    /\ \E m \in Mechanisms :
        /\ lists = <<m>>
        /\ inputs \in SolveInputs(m)
        /\ mapping \in Mappings(m)
    /\ angles \in AngleLists
    /\ vpoints_ = 1
    /\ pc = "synthesize"
    /\ NoFrame
    /\ NoCall
    /\ NoSets
    /\ NoGraph

\* exprs = t_config(vpoints_, inputs)
Synthesize ==
    /\ pc = "synthesize"
    /\ LET r == t_config(lists, vpoints_, inputs, EmptyMap)
       IN  lists' = r.lists /\ exprs' = r.exprs /\ status' = r.status
    /\ pc' = "expr_solving"
    /\ call' = 1
    /\ UNCHANGED <<vpoints_, inputs, vpoints, vlinks, link_symbol, angle_symbol, node,
                   skip_times, around, emitted, idle, mapping, angles, data_dict, dof_input,
                   dof, parsed, solved_bfgs, outcome, first, bfgs, void_except, xvars>>

\* the caller writes the stack itself
HandBuilt ==
    /\ pc = "synthesize"
    /\ inputs = <<>>
    /\ \E es \in HandStacks(lists[vpoints_]) : exprs' = es
    /\ pc' = "expr_solving"
    /\ call' = 1
    /\ UNCHANGED <<lists, vpoints_, inputs, vpoints, vlinks, status, link_symbol,
                   angle_symbol, node, skip_times, around, emitted, idle, mapping, angles,
                   data_dict, dof_input, dof, parsed, solved_bfgs, outcome, first, bfgs,
                   void_except, xvars>>

\* what a step of expr_solving leaves alone
Args == <<vpoints_, inputs, tvars, mapping, angles, call, first, xvars>>

\* lines 464-469: data_collecting; a missing name ends the call with a KeyError
Collect ==
    /\ pc = "expr_solving"
    /\ LET d == data_collecting(lists, exprs, mapping, vpoints_)
       IN  /\ lists' = d.lists
           /\ data_dict' = d.data_dict
           /\ dof_input' = d.dof
           /\ IF d.err # "" THEN outcome' = Raise(d.err) /\ pc' = "done"
              ELSE outcome' = Running /\ pc' = "check_input_number"
    /\ solved_bfgs' = <<>>
    /\ UNCHANGED <<Args, dof, parsed, bfgs, void_except>>

\* the comparison with >= for >
TooManyOrEqual(consumed, free) == consumed >= free

\* line 473
TooManyInputs(consumed, free) == consumed > free

\* lines 471-476
CheckInputNumber ==
    /\ pc = "check_input_number"
    /\ dof' = vpoint_dof(lists[vpoints_])
    /\ IF TooManyInputs(dof_input, dof') THEN outcome' = Raise(WrongNumber) /\ pc' = "done"
       ELSE outcome' = outcome /\ pc' = "check_input_pairs"
    /\ UNCHANGED <<Args, lists, data_dict, dof_input, parsed, solved_bfgs, bfgs,
                   void_except>>

\* lines 478-495
CheckInputPairs ==
    /\ pc = "check_input_pairs"
    /\ LET r == DriverChecks(exprs, SolvingNames(mapping), lists[vpoints_])
       IN  IF r # "" THEN outcome' = Raise(r) /\ pc' = "done"
           ELSE outcome' = outcome /\ pc' = "angles"
    /\ UNCHANGED <<Args, lists, data_dict, dof_input, dof, parsed, solved_bfgs, bfgs,
                   void_except>>

\* lines 497-501
Angles ==
    /\ pc = "angles"
    /\ data_dict' = SetAngles(data_dict, angles, 0)
    /\ parsed' = 0
    /\ pc' = "expr_parser"
    /\ UNCHANGED <<Args, lists, dof_input, dof, solved_bfgs, outcome, bfgs, void_except>>

NextExpr == ParseExpr(data_dict, exprs[parsed + 1])

\* expr_parser, lines 175-230: one expression evaluated
Parse ==
    /\ pc = "expr_parser"
    /\ parsed < Len(exprs)
    /\ NextExpr.err = ""
    /\ data_dict' = NextExpr.data_dict
    /\ parsed' = parsed + 1
    /\ UNCHANGED <<Args, lists, pc, dof_input, dof, solved_bfgs, outcome, bfgs,
                   void_except>>

\* expr_parser raises and the exception leaves expr_solving
ParseRaise ==
    /\ pc = "expr_parser"
    /\ parsed < Len(exprs)
    /\ NextExpr.err # ""
    /\ void_except \in {"unset", "raise"}
    /\ void_except' = "raise"
    /\ outcome' = Raise(NextExpr.err)
    /\ pc' = "done"
    /\ UNCHANGED <<Args, lists, data_dict, dof_input, dof, parsed, solved_bfgs, bfgs>>

\* expr_parser raises inside a `void` function that drops the exception
ParseDrop ==
    /\ pc = "expr_parser"
    /\ parsed < Len(exprs)
    /\ NextExpr.err # ""
    /\ void_except \in {"unset", "drop"}
    /\ void_except' = "drop"
    /\ pc' = "known_points"
    /\ UNCHANGED <<Args, lists, data_dict, dof_input, dof, parsed, solved_bfgs, outcome,
                   bfgs>>

\* the stack is replayed
ParseDone ==
    /\ pc = "expr_parser"
    /\ parsed = Len(exprs)
    /\ pc' = "known_points"
    /\ UNCHANGED <<Args, lists, data_dict, dof_input, dof, parsed, solved_bfgs, outcome,
                   bfgs, void_except>>

AllNamed == \A i \in Idx(lists[vpoints_]) : Has(mapping.names, i)

\* the flag is never set
NeverUnsolved == FALSE

has_not_solved ==
    \E i \in Idx(lists[vpoints_]) : ~Has(data_dict, mapping.names[i])

\* lines 507-516: mapping[i] of a joint without a name is a KeyError
KnownPointsStep ==
    /\ pc = "known_points"
    /\ IF ~AllNamed THEN outcome' = Raise(KeyError) /\ pc' = "done"
       ELSE /\ outcome' = outcome
            /\ pc' = IF has_not_solved THEN "vpoint_solving" ELSE "format"
    /\ UNCHANGED <<Args, lists, data_dict, dof_input, dof, parsed, solved_bfgs, bfgs,
                   void_except>>

p_data_dict ==
    [points |-> KnownPoints(data_dict, mapping, lists[vpoints_]),
     lengths |-> mapping.lengths]

\* lines 520-529: the solver answers
Solved ==
    /\ pc = "vpoint_solving"
    /\ bfgs \in {"unset", "answer"}
    /\ bfgs' = "answer"
    /\ solved_bfgs' = vpoint_solving(lists[vpoints_], p_data_dict)
    /\ pc' = "format"
    /\ UNCHANGED <<Args, lists, data_dict, dof_input, dof, parsed, outcome, void_except>>

\* lines 530-531: the solver gives up
SolveFailed ==
    /\ pc = "vpoint_solving"
    /\ bfgs \in {"unset", "ValueError"}
    /\ bfgs' = "ValueError"
    /\ outcome' = Raise(SketchFailure)
    /\ pc' = "done"
    /\ UNCHANGED <<Args, lists, data_dict, dof_input, dof, parsed, solved_bfgs,
                   void_except>>

\* lines 533-560
FormatStep ==
    /\ pc = "format"
    /\ outcome' = Format(data_dict, mapping.names, lists[vpoints_], solved_bfgs)
    /\ pc' = "done"
    /\ UNCHANGED <<Args, lists, data_dict, dof_input, dof, parsed, solved_bfgs, bfgs,
                   void_except>>

\* the caller calls expr_solving again with the same arguments
Again ==
    /\ pc = "done"
    /\ call = 1
    /\ first' = outcome
    /\ call' = 2
    /\ outcome' = Running
    /\ pc' = "expr_solving"
    /\ UNCHANGED <<lists, vpoints_, inputs, tvars, mapping, angles, data_dict, dof_input,
                   dof, parsed, solved_bfgs, bfgs, void_except, xvars>>

NextSolve ==
    \/ Synthesize
    \/ HandBuilt
    \/ Collect
    \/ CheckInputNumber
    \/ CheckInputPairs
    \/ Angles
    \/ Parse
    \/ ParseRaise
    \/ ParseDrop
    \/ ParseDone
    \/ KnownPointsStep
    \/ Solved
    \/ SolveFailed
    \/ FormatStep
    \/ Again

SpecSolve == InitSolve /\ [][NextSolve]_vars

(***************************************************************************)
(* Properties of expr_solving                                              *)
(***************************************************************************)
Caller == lists[vpoints_]               \* the joint list the caller passed in

Done == pc = "done"

\* a working copy differs from the caller's list
Normalized == \E r \in DOMAIN lists : r # vpoints_ /\ lists[r] # Caller

\* C3: t_config, data_collecting and expr_solving never alter the caller's joint
\* list: every step leaves the list passed in as it was, also when the P-to-RP
\* normalization replaces joints in the working copy.
C3_CallerListKept == [][lists'[vpoints_] = lists[vpoints_]]_vars

\* both calls are over and the normalization has replaced joints in a copy
C3_Witness == Done /\ call = 2 /\ Normalized /\ Len(exprs) > 0

\* the PLA and PLAP expressions of the stack
Drivers == {k \in DOMAIN exprs : exprs[k].func \in {PLA, PLAP}}

Collected == data_collecting(lists, exprs, mapping, vpoints_).err = ""

\* nothing of the stack has been evaluated and no angle has been set
Untouched == parsed = 0 /\ \A name \in DOMAIN data_dict : name[1] # "a"

\* C4: expr_solving fails with 'wrong number of input parameters' exactly when the
\* number of PLA/PLAP expressions that data_collecting counted exceeds vpoint_dof of
\* the joint list; the check comes before the driver check and before any expression
\* is evaluated; a four-bar (DOF 1) solved with two inputs fails with this error.
C4_InputNumber ==
    /\ Done =>
        (outcome = Raise(WrongNumber)
            <=> (Collected /\ Cardinality(Drivers) > vpoint_dof(Caller)))
    /\ outcome = Raise(WrongNumber) => Untouched
    /\ (Done /\ Collected /\ Caller = FourBar /\ Len(inputs) = 2) =>
            outcome = Raise(WrongNumber)

\* a four-bar with two input pairs, one of them between two grounded joints, has
\* been refused for its number of inputs
C4_Witness ==
    /\ Done
    /\ Caller = FourBar
    /\ inputs = << <<0, 1>>, <<0, 3>> >>
    /\ outcome = Raise(WrongNumber)

\* the joint of a point symbol of the stack, by the names of the mapping
JointOf(s) ==
    LET i == CHOOSE i \in DOMAIN mapping.names : mapping.names[i] = symbol_str(s)
    IN  Joint(Caller, i)

IsNamed(s) == \E i \in DOMAIN mapping.names : mapping.names[i] = symbol_str(s)

\* expression k is a PLA or PLAP between two grounded joints
GroundedDriver(k) ==
    /\ k \in Drivers
    /\ IsNamed(exprs[k].c1) /\ IsNamed(Target(exprs[k]))
    /\ grounded(JointOf(exprs[k].c1))
    /\ grounded(JointOf(Target(exprs[k])))

\* a single input pair between two grounded joints
GroundedPair ==
    /\ Len(inputs) = 1
    /\ grounded(Joint(Caller, inputs[1][1]))
    /\ grounded(Joint(Caller, inputs[1][2]))

\* C5 as stated: whenever some PLA or PLAP of the stack has both its base and its
\* target grounded, expr_solving fails with 'wrong driver definition'.
C5_AlwaysWrongDriver ==
    (Done /\ \E k \in Drivers : GroundedDriver(k)) => outcome = Raise(WrongDriver)

\* C5: whenever some PLA or PLAP of the stack has both its base and its target
\* grounded, expr_solving returns no positions; it fails with 'wrong driver
\* definition' unless data_collecting or the input-number check has failed before.
\* A single input pair of two grounded joints of the four-bar, synthesized by
\* t_config and solved, ends in 'wrong driver definition'.
C5_WrongDriver ==
    /\ (Done /\ \E k \in Drivers : GroundedDriver(k)) =>
        /\ outcome.kind = "raise"
        /\ (Collected /\ Cardinality(Drivers) <= vpoint_dof(Caller)) =>
                outcome = Raise(WrongDriver)
    /\ (Done /\ Collected /\ Caller = FourBar /\ GroundedPair) =>
            outcome = Raise(WrongDriver)

\* the four-bar driven between its two frame pins has been refused
C5_Witness ==
    /\ Done
    /\ Caller = FourBar
    /\ inputs = << <<0, 3>> >>
    /\ outcome = Raise(WrongDriver)

Returned == Done /\ outcome.kind = "return"

ClosedForm(i) == Has(data_dict, mapping.names[i])

\* the entry of joint i made of coordinate `at`
Shaped(i, at) == IF Joint(Caller, i).type = R THEN at ELSE <<Joint(Caller, i).c[1], at>>

\* C6: whenever expr_solving returns, the result has one entry per joint, in joint
\* order; entry i is the closed-form value when joint i's name has an entry in the data
\* dictionary and the solver's value for joint i otherwise, so the original position is
\* never used; the solver is invoked iff some joint has no closed-form entry.
C6_Assembly ==
    /\ Returned =>
        /\ Len(outcome.value) = Len(Caller)
        /\ \A i \in Idx(Caller) :
            IF ClosedForm(i)
            THEN outcome.value[i + 1] = Shaped(i, data_dict[mapping.names[i]])
            ELSE /\ solved_bfgs # <<>>
                 /\ outcome.value[i + 1] = solved_bfgs[i + 1]
                 /\ solved_bfgs[i + 1] = vpoint_solving(Caller, p_data_dict)[i + 1]
        /\ solved_bfgs # <<>> <=> \E i \in Idx(Caller) : ~ClosedForm(i)
    /\ pc = "vpoint_solving" => \E i \in Idx(Caller) : ~ClosedForm(i)

\* a call has returned a result with an entry of each kind
C6_Witness ==
    /\ Returned
    /\ \E i \in Idx(Caller) : ClosedForm(i)
    /\ \E i \in Idx(Caller) : ~ClosedForm(i)

\* joint i has a failed closed-form coordinate
FailedJoint(i) == ClosedForm(i) /\ is_nan(data_dict[mapping.names[i]])

\* the coordinates expression e reads
ReadPoints(e) == {data_dict[symbol_str(o)] : o \in PointOperands(e)}

\* a kernel step that reads a failed coordinate writes a failed coordinate
Propagates ==
    (pc = "expr_parser" /\ pc' = "expr_parser" /\ parsed' = parsed + 1
        /\ \E c \in ReadPoints(exprs[parsed + 1]) : is_nan(c))
    => is_nan(data_dict'[TargetName(exprs[parsed + 1])])

\* C7 as stated: if after the replay the closed-form coordinate of a joint is failed,
\* expr_solving fails with 'result contains failure: Point{i}' for such a joint i.
C7_AlwaysPointFailure ==
    (Done /\ \E i \in Idx(Caller) : AllNamed /\ FailedJoint(i)) =>
        \E i \in Idx(Caller) : FailedJoint(i) /\ outcome = RaisePoint(i)

\* C7: if after the replay the closed-form coordinate of a joint is failed,
\* expr_solving returns no positions: it fails with 'result contains failure: Point{i}'
\* for the first such joint i, unless a joint without a closed-form value sent the call
\* to the solver and the solver failed first.  No returned list holds a failed
\* coordinate, and a kernel step that reads a failed coordinate writes a failed one.
C7_PointFailure ==
    /\ [](
        /\ (Done /\ AllNamed /\ \E i \in Idx(Caller) : FailedJoint(i)) =>
            \/ \E i \in Idx(Caller) :
                /\ FailedJoint(i)
                /\ \A j \in 0 .. (i - 1) : ~FailedJoint(j)
                /\ outcome = RaisePoint(i)
            \/ /\ outcome = Raise(SketchFailure)
               /\ \E i \in Idx(Caller) : ~ClosedForm(i)
        /\ Returned => \A i \in Idx(Caller) : ~FailedJoint(i)
        /\ Returned => \A k \in DOMAIN outcome.value :
                LET v == outcome.value[k]
                IN  IF Joint(Caller, k - 1).type = R THEN ~is_nan(v)
                    ELSE ~is_nan(v[2]))
    /\ [][Propagates]_vars

\* a call has failed for the failed coordinate of a joint that a failed operand made
C7_Witness ==
    /\ Done
    /\ \E i \in Idx(Caller) : outcome = RaisePoint(i)
    /\ Cardinality({i \in Idx(Caller) : AllNamed /\ FailedJoint(i)}) > 1

Kinds == {WrongNumber, WrongDriver, Unsupported, PointFailure, SketchFailure}

\* C8: every call of expr_solving returns a complete positions list or fails with one
\* of the listed kinds, for every stack, mapping, joint list and angles list.
C8_Outcomes ==
    Done => \/ outcome.kind = "return" /\ Len(outcome.value) = Len(Caller)
            \/ outcome.kind = "raise" /\ outcome.err[1] \in Kinds

MaxJoints == 2

LinkLists ==
    {<<>>, <<"ground">>, <<"L1">>, <<"ground", "L1">>, <<"L1", "L2">>,
     <<"ground", "L1", "L2">>}

JointKinds == {VPoint(t, l, 0, 0, 0) : t \in {R, P, RP}, l \in LinkLists}

InitDof ==
    /\ lists = << <<>> >>
    /\ vpoints_ = 1
    /\ inputs = <<>>
    /\ pc = "joints"
    /\ NoFrame
    /\ NoCall
    /\ NoSets
    /\ NoGraph
    /\ mapping = NoMapping
    /\ angles = <<>>

DofRest ==
    <<vpoints_, inputs, tvars, mapping, angles, data_dict, dof_input, parsed,
      solved_bfgs, outcome, call, first, bfgs, void_except, xvars>>

\* the caller adds a joint to the list
AddJoint ==
    /\ pc = "joints"
    /\ Len(Caller) < MaxJoints
    /\ \E j \in JointKinds : lists' = [lists EXCEPT ![vpoints_] = Append(@, j)]
    /\ UNCHANGED <<pc, dof, DofRest>>

\* the caller takes a mechanism of the catalogue
TakeMechanism ==
    /\ pc = "joints"
    /\ Caller = <<>>
    /\ \E m \in Mechanisms \ {<<>>} : lists' = [lists EXCEPT ![vpoints_] = m]
    /\ UNCHANGED <<pc, dof, DofRest>>

\* dof = vpoint_dof(vpoints)
CallDof ==
    /\ pc = "joints"
    /\ dof' = vpoint_dof(Caller)
    /\ pc' = "dof_done"
    /\ UNCHANGED <<lists, DofRest>>

\* the link names that exist in a joint list: the frame and every name in a joint
ExistingLinks(vp) == {FRAME} \cup LinkNames(vp)

\* the caller appends a revolute joint on two existing links and asks again
AppendPin ==
    /\ pc = "dof_done"
    /\ \E a, b \in ExistingLinks(Caller) :
        /\ a # b
        /\ lists' = [lists EXCEPT ![vpoints_] = Append(@, VPoint(R, <<a, b>>, 0, 0, 0))]
    /\ dof_was' = dof
    /\ dof' = vpoint_dof(lists'[vpoints_])
    /\ pc' = "pin_added"
    /\ UNCHANGED <<vpoints_, inputs, tvars, mapping, angles, data_dict, dof_input, parsed,
                   solved_bfgs, outcome, call, first, bfgs, void_except,
                   heap, iter, changed, ret, ops, graph, cycles, laid>>

NextDof == AddJoint \/ TakeMechanism \/ CallDof \/ AppendPin

SpecDof == InitDof /\ [][NextDof]_vars

\* the joints that count: two links or more
Counted(vp) == {i \in Idx(vp) : Len(Joint(vp, i).links) >= 2}

RECURSIVE Sum(_, _)
Sum(f, S) == IF S = {} THEN 0 ELSE LET x == CHOOSE x \in S : TRUE
                                   IN  f[x] + Sum(f, S \ {x})

\* 3 (n - 1) - 2 j1 - j2
Gruebler(vp) ==
    LET n == Cardinality({FRAME} \cup UNION {Range(Joint(vp, i).links) : i \in Counted(vp)})
        lower == [i \in Counted(vp) |->
                    IF Joint(vp, i).type = RP THEN Len(Joint(vp, i).links) - 2
                    ELSE Len(Joint(vp, i).links) - 1]
        j1 == Sum(lower, Counted(vp))
        j2 == Cardinality({i \in Counted(vp) : Joint(vp, i).type = RP})
    IN  3 * (n - 1) - 2 * j1 - j2

\* C10: vpoint_dof returns 3 (n - 1) - 2 j1 - j2, n the number of distinct links of
\* the joints with two links or more together with the ground, j1 the sum of links - 1
\* over such R and P joints and links - 2 over such RP joints, j2 the number of such RP
\* joints; the standard four-bar gives 1.
C10_Gruebler ==
    pc = "dof_done" => /\ dof = Gruebler(Caller)
                       /\ Caller = FourBar => dof = 1

\* the DOF of a list with a P joint and an RP joint that count has been computed
C10_Witness ==
    /\ pc = "dof_done"
    /\ \E i \in Counted(Caller) : Joint(Caller, i).type = P
    /\ \E i \in Counted(Caller) : Joint(Caller, i).type = RP

\* the joint the caller appended last
Appended == Joint(Caller, Len0(Caller) - 1)

\* C11: appending a revolute joint on two distinct existing links (the frame or a
\* link named in some joint) lowers the value of vpoint_dof by exactly 2
C11_PinLowersByTwo == pc = "pin_added" => dof = dof_was - 2

(***************************************************************************)
(* OrderedSet (graph_layout.pyx lines 166-606)                             *)
(*                                                                         *)
(* The objects live in a heap h: h.entries holds the Entry objects and     *)
(* h.osets the OrderedSet objects; a reference is an index, None is 0.     *)
(* An OrderedSet is [map, end, os_used]: map sends a key to its Entry and  *)
(* end is the sentinel of the circular list.                               *)
(***************************************************************************)
\* lines 166-169: cdef class Entry
NewEntry(key, prev, next) == [key |-> key, prev |-> prev, next |-> next]

EmptyHeap == [entries |-> <<>>, osets |-> <<>>]

Del(m, k) == [x \in DOMAIN m \ {k} |-> m[x]]          \* map.pop(k)

\* lines 272-276: a new OrderedSet is the last object of the heap
__cinit__(h) ==
    LET end == Len(h.entries) + 1
    IN  [entries |-> Append(h.entries, NewEntry(0, end, end)),
         osets |-> Append(h.osets, [map |-> EmptyMap, end |-> end, os_used |-> 0])]

NewRef(h) == Len(h.osets)

\* lines 172-181
_add(h, oset, key) ==
    LET end == h.osets[oset].end
        map == h.osets[oset].map
        next == Len(h.entries) + 1
        last == h.entries[end].prev
        e1 == Append(h.entries, NewEntry(key, last, end))
        e2 == [e1 EXCEPT ![last].next = next]
        e3 == [e2 EXCEPT ![end].prev = next]
    IN  IF key \in DOMAIN map THEN h
        ELSE [entries |-> e3,
              osets |-> [h.osets EXCEPT ![oset].map = Put(map, key, next),
                                        ![oset].os_used = @ + 1]]

\* a discard that unlinks the entry in the forward direction only
_discard_forward(h, oset, key) ==
    LET map == h.osets[oset].map
        entry == map[key]
        e0 == h.entries
        e1 == [e0 EXCEPT ![e0[entry].prev].next = e0[entry].next]
    IN  IF key \notin DOMAIN map THEN h
        ELSE [entries |-> e1,
              osets |-> [h.osets EXCEPT ![oset].map = Del(map, key),
                                        ![oset].os_used = @ - 1]]

\* lines 184-192
_discard(h, oset, key) ==
    LET map == h.osets[oset].map
        entry == map[key]
        e0 == h.entries
        e1 == [e0 EXCEPT ![e0[entry].prev].next = e0[entry].next]
        e2 == [e1 EXCEPT ![e1[entry].next].prev = e1[entry].prev]
    IN  IF key \notin DOMAIN map THEN h
        ELSE [entries |-> e2,
              osets |-> [h.osets EXCEPT ![oset].map = Del(map, key),
                                        ![oset].os_used = @ - 1]]

\* lines 453-457 (and the loop of __init__, lines 285-290): add every element
RECURSIVE __ior__(_, _, _)
__ior__(h, oset, other) ==
    IF other = <<>> THEN h
    ELSE Only({__ior__(next, oset, Tail(other)) : next \in {_add(h, oset, Head(other))}})

\* lines 278-290: OrderedSet(iterable); the new object is NewRef of the result
OrderedSet(h, iterable) ==
    Only({__ior__(h1, NewRef(h1), items) : h1 \in {__cinit__(h)}, items \in {iterable}})

\* lines 326-335: the old chain is cut at the old sentinel, a new sentinel is made
clear(h, oset) ==
    LET end == h.osets[oset].end
        e0 == h.entries
        e1 == [e0 EXCEPT ![e0[end].next].prev = 0]
        e2 == [e1 EXCEPT ![end].next = 0]
        new == Len(e2) + 1
    IN  [entries |-> Append(e2, NewEntry(0, new, new)),
         osets |-> [h.osets EXCEPT ![oset] = [map |-> EmptyMap, end |-> new, os_used |-> 0]]]

\* what a call of next gives
ChangedSize == <<"RuntimeError", 0>>        \* '... changed size during iteration'
StopIteration == <<"StopIteration", 0>>
Undefined == <<"undefined", 0>>             \* item.key where item is None
Yield(key) == <<"key", key>>

\* lines 211-214 and 237-240: an iterator is [oset, curr, si_used, reversed]
NewIterator(h, oset, reversed) ==
    [oset |-> oset, curr |-> h.osets[oset].end, si_used |-> h.osets[oset].os_used,
     reversed |-> reversed]

\* lines 219-231 and 245-255: __next__ of the two iterators; the result is the
\* iterator after the call and what the call gave
__next__(h, i) ==
    LET o == h.osets[i.oset]
        item == IF i.reversed THEN h.entries[i.curr].prev ELSE h.entries[i.curr].next
    IN  IF i.si_used # o.os_used
        THEN [iter |-> [i EXCEPT !.si_used = -1], out |-> ChangedSize]
        ELSE IF item = o.end THEN [iter |-> i, out |-> StopIteration]
        ELSE IF item = 0 THEN [iter |-> [i EXCEPT !.curr = 0], out |-> Undefined]
        ELSE [iter |-> [i EXCEPT !.curr = item], out |-> Yield(h.entries[item].key)]

\* list(iterator): the keys up to StopIteration
RECURSIVE Drain(_, _)
Drain(h, i) ==
    Only({IF r.out[1] = "key" THEN <<r.out[2]>> \o Drain(h, r.iter) ELSE <<>> :
          r \in {__next__(h, i)}})

\* list(oset) and list(reversed(oset))
__iter__(h, oset) == Drain(h, NewIterator(h, oset, FALSE))
__reversed__(h, oset) == Drain(h, NewIterator(h, oset, TRUE))

__len__(h, oset) == Cardinality(DOMAIN h.osets[oset].map)
__contains__(h, oset, elem) == elem \in DOMAIN h.osets[oset].map

\* lines 341-352: A - B; the other OrderedSet is not a collections.abc.Set and is
\* copied first; the result is NewRef of the heap returned
__sub__(h, self, other) ==
    Only({OrderedSet(h1, SelectSeq(__iter__(h1, self),
                                   LAMBDA value : ~__contains__(h1, NewRef(h1), value))) :
          h1 \in {OrderedSet(h, __iter__(h, other))}})

\* lines 367-378: A & B
__and__(h, self, other) ==
    Only({OrderedSet(h1, SelectSeq(__iter__(h1, self),
                                   LAMBDA value : __contains__(h1, NewRef(h1), value))) :
          h1 \in {OrderedSet(h, __iter__(h, other))}})

\* A | B with the chain taken from the other operand first
OrOtherFirst(h, self, other) == OrderedSet(h, __iter__(h, other) \o __iter__(h, self))

\* lines 442-451: A | B
__or__(h, self, other) ==
    Only({OrderedSet(h, chain) : chain \in {__iter__(h, self) \o __iter__(h, other)}})

\* what a method gives: a value, or the exception it raises
None == <<"None", 0>>
EmptySet == <<"KeyError", 0>>               \* 'OrderedSet is empty'
NoSuchKey(elem) == <<"KeyError", elem>>
OutOfRange == <<"IndexError", 0>>           \* 'list index out of range'

\* lines 507-524: self[index]
_getindex(h, oset, index) ==
    LET len == __len__(h, oset)
    IN  IF index >= len \/ (index < 0 /\ -index > len) THEN OutOfRange
        ELSE IF index >= 0 THEN Yield(__iter__(h, oset)[index + 1])
        ELSE Yield(__reversed__(h, oset)[-index])

\* lines 307-315: the result is the heap after the call and what the call gave
pop(h, oset, index) ==
    LET key == _getindex(h, oset, index)
    IN  IF __len__(h, oset) = 0 THEN [heap |-> h, out |-> EmptySet]
        ELSE IF key = OutOfRange THEN [heap |-> h, out |-> key]
        ELSE [heap |-> _discard(h, oset, key[2]), out |-> key]

\* lines 317-324
remove(h, oset, elem) ==
    IF ~__contains__(h, oset, elem) THEN [heap |-> h, out |-> NoSuchKey(elem)]
    ELSE [heap |-> _discard(h, oset, elem), out |-> None]

\* lines 534-538
reverse(h, oset) ==
    LET my_iter == __reversed__(h, oset)
    IN  __ior__(clear(h, oset), oset, my_iter)

\* self.discard(value) for every value of a list
RECURSIVE discard_each(_, _, _)
discard_each(h, oset, values) ==
    IF values = <<>> THEN h
    ELSE discard_each(_discard(h, oset, Head(values)), oset, Tail(values))

\* lines 354-361: A -= other; other is a list, or A itself (is_self)
__isub__(h, oset, other, is_self) ==
    IF is_self THEN clear(h, oset) ELSE discard_each(h, oset, other)

\* lines 380-384: A &= it for a list it; `self - it` copies the list into an
\* OrderedSet (lines 347-350) and builds the difference as a new OrderedSet
__iand__(h, oset, it) ==
    LET h1 == OrderedSet(h, it)
        copy == NewRef(h1)
        h2 == OrderedSet(h1, SelectSeq(__iter__(h1, oset),
                                       LAMBDA value : ~__contains__(h1, copy, value)))
    IN  discard_each(h2, oset, __iter__(h2, NewRef(h2)))

\* lines 427-431: every value of other leaves the set if it is in it and joins
\* it if it is not
RECURSIVE toggle_each(_, _, _)
toggle_each(h, oset, values) ==
    IF values = <<>> THEN h
    ELSE LET value == Head(values)
             next == IF __contains__(h, oset, value) THEN _discard(h, oset, value)
                     ELSE _add(h, oset, value)
         IN  toggle_each(next, oset, Tail(values))

\* lines 420-432: A ^= other; a list is copied into an OrderedSet first
__ixor__(h, oset, other, is_self) ==
    IF is_self THEN clear(h, oset)
    ELSE LET h1 == OrderedSet(h, other)
         IN  toggle_each(h1, oset, __iter__(h1, NewRef(h1)))

\* set(oset)
AsSet(h, oset) == Range(__iter__(h, oset))

\* lines 578-584 and 586-592, against a builtin set
__le__(h, self, other) ==
    __len__(h, self) <= Cardinality(other) /\ AsSet(h, self) \subseteq other
__lt__(h, self, other) ==
    /\ __len__(h, self) < Cardinality(other)
    /\ AsSet(h, self) \subseteq other /\ AsSet(h, self) # other

\* lines 594-606
__ge__(h, self, other) == ~__lt__(h, self, other)
__gt__(h, self, other) == ~__le__(h, self, other)

\* lines 395-401: `other <= self` with a builtin set on the left is not implemented
\* by set and falls to the reflected OrderedSet.__ge__
issubset(h, self, other) == __le__(h, self, other)
issuperset(h, self, other) == __ge__(h, self, other)

(***************************************************************************)
(* The caller of OrderedSet: it builds a set A, then either combines or    *)
(* compares it with another set, or iterates over it while changing it.    *)
(***************************************************************************)
MaxLen == 2
MaxOps == 3

Keys == {1, 2}
Iterables == SeqsUpTo(Keys, MaxLen)
UpdateLists == {<<k>> : k \in Keys} \cup {<<1, 2>>}
Indices == {0, -1}

A == NewRef(__cinit__(EmptyHeap))        \* the first OrderedSet of the heap
B == A + 1                               \* the second

Called(op, arg, value) == [op |-> op, arg |-> arg, value |-> value]

\* everything but the OrderedSet variables
SetRest == <<lists, vpoints_, inputs, tvars, svars, dof_was, graph, cycles, laid>>

InitSet ==
    /\ lists = << <<>> >>
    /\ vpoints_ = 1
    /\ inputs = <<>>
    /\ pc = "sets"
    /\ NoFrame
    /\ mapping = NoMapping
    /\ angles = <<>>
    /\ NoCall
    /\ NoGraph
    /\ \E a \in Iterables :
        /\ heap = OrderedSet(EmptyHeap, a)
        /\ ret = Called("OrderedSet", a, A)
    /\ NoIterator

\* B = OrderedSet(b)
Other ==
    /\ pc = "sets"
    /\ \E b \in Iterables :
        /\ heap' = OrderedSet(heap, b)
        /\ ret' = Called("OrderedSet", b, B)
    /\ pc' = "pair"
    /\ UNCHANGED <<iter, changed, ops, SetRest>>

Combined(op, h) ==
    /\ heap' = h
    /\ ret' = Called(op, <<A, B>>, NewRef(h))
    /\ pc' = "set_done"
    /\ UNCHANGED <<iter, changed, ops, SetRest>>

Union == pc = "pair" /\ Combined("or", __or__(heap, A, B))
Intersection == pc = "pair" /\ Combined("and", __and__(heap, A, B))
Difference == pc = "pair" /\ Combined("sub", __sub__(heap, A, B))

\* A <= s, A < s, A >= s, A > s, A.issubset(s), A.issuperset(s) for a builtin set s
Compare ==
    /\ pc = "sets"
    /\ \E other \in SUBSET Keys :
        ret' = Called("compare", other,
                      [le |-> __le__(heap, A, other), lt |-> __lt__(heap, A, other),
                       ge |-> __ge__(heap, A, other), gt |-> __gt__(heap, A, other),
                       issubset |-> issubset(heap, A, other),
                       issuperset |-> issuperset(heap, A, other)])
    /\ pc' = "set_done"
    /\ UNCHANGED <<heap, iter, changed, ops, SetRest>>

\* iter(A) or reversed(A)
MakeIterator ==
    /\ pc = "sets"
    /\ \E reversed \in BOOLEAN : iter' = NewIterator(heap, A, reversed)
    /\ ret' = Called("iter", <<>>, None)
    /\ pc' = "iterating"
    /\ UNCHANGED <<heap, changed, ops, SetRest>>

\* a call on A while the iterator is held
Mutated(op, arg, h, value) ==
    /\ pc = "iterating"
    /\ ops < MaxOps
    /\ heap' = h
    /\ ret' = Called(op, arg, value)
    /\ changed' = (changed \/ DOMAIN h.osets[A].map # DOMAIN heap.osets[A].map)
    /\ ops' = ops + 1
    /\ UNCHANGED <<pc, iter, SetRest>>

CallAdd == \E k \in Keys : Mutated("add", k, _add(heap, A, k), None)
CallDiscard == \E k \in Keys : Mutated("discard", k, _discard(heap, A, k), None)
\* remove is `cpdef void`: a build where a void function cannot raise loses the
\* KeyError
CallRemove ==
    \E k \in Keys, build \in {"raise", "drop"} :
        LET r == remove(heap, A, k)
        IN  Mutated("remove", k, r.heap, IF build = "drop" THEN None ELSE r.out)
CallPop ==
    \E i \in Indices : LET r == pop(heap, A, i) IN Mutated("pop", i, r.heap, r.out)
CallClear == Mutated("clear", <<>>, clear(heap, A), None)
CallUpdate == \E l \in UpdateLists : Mutated("update", l, __ior__(heap, A, l), None)
CallReverse == Mutated("reverse", <<>>, reverse(heap, A), None)

\* A -= l, A &= l, A ^= l for a list l, and A -= A, A ^= A
Itself == <<"self">>
CallISub ==
    \/ \E l \in UpdateLists : Mutated("isub", l, __isub__(heap, A, l, FALSE), None)
    \/ Mutated("isub", Itself, __isub__(heap, A, <<>>, TRUE), None)
CallIAnd == \E l \in UpdateLists : Mutated("iand", l, __iand__(heap, A, l), None)
CallIXor ==
    \/ \E l \in UpdateLists : Mutated("ixor", l, __ixor__(heap, A, l, FALSE), None)
    \/ Mutated("ixor", Itself, __ixor__(heap, A, <<>>, TRUE), None)

\* next(iter)
CallNext ==
    /\ pc = "iterating"
    /\ ops < MaxOps
    /\ iter.curr # 0
    /\ LET r == __next__(heap, iter)
       IN  iter' = r.iter /\ ret' = Called("next", changed, r.out)
    /\ ops' = ops + 1
    /\ UNCHANGED <<pc, heap, changed, SetRest>>

NextSet ==
    \/ Other \/ Union \/ Intersection \/ Difference \/ Compare \/ MakeIterator
    \/ CallAdd \/ CallDiscard \/ CallRemove \/ CallPop \/ CallClear \/ CallUpdate
    \/ CallReverse \/ CallISub \/ CallIAnd \/ CallIXor \/ CallNext

SpecSet == InitSet /\ [][NextSet]_vars

(***************************************************************************)
(* OrderedSet: properties                                                  *)
(***************************************************************************)
Keep(s, S) == SelectSeq(s, LAMBDA x : x \in S)
Rest(s, S) == SelectSeq(s, LAMBDA x : x \notin S)
NoDuplicate(s) == \A i, j \in DOMAIN s : i # j => s[i] # s[j]

\* C12: A | B lists A in A's order and then the elements of B not in A in B's
\* order; A & B lists the elements of A that are in B, in A's order; A - B lists
\* the elements of A not in B, in A's order; no result holds a duplicate, and A
\* and B are what they were before the operation
C12_SetAlgebra ==
    [][pc = "pair" =>
        LET a == __iter__(heap, A)
            b == __iter__(heap, B)
            r == __iter__(heap', ret'.value)
        IN  /\ heap'.osets[A] = heap.osets[A] /\ __iter__(heap', A) = a
            /\ heap'.osets[B] = heap.osets[B] /\ __iter__(heap', B) = b
            /\ NoDuplicate(r)
            /\ ret'.op = "or" => r = a \o Rest(b, Range(a))
            /\ ret'.op = "and" => r = Keep(a, Range(b))
            /\ ret'.op = "sub" => r = Rest(a, Range(b))]_vars

\* a union of two sets that share an element, where B brings a new element that
\* sorts before an element of A
C12_Witness ==
    /\ pc = "set_done"
    /\ ret.op = "or"
    /\ Range(__iter__(heap, A)) \cap Range(__iter__(heap, B)) # {}
    /\ __iter__(heap, ret.value) = <<2, 1>>
    /\ __iter__(heap, B) = <<1, 2>>

\* C13: a call of next on an iterator of a set that had an element added or
\* removed since the iterator was made raises 'changed size during iteration',
\* and so does every call of next after the fault was raised once
C13_MutationDetected ==
    [][CallNext => ((changed \/ iter.si_used = -1) => ret'.value = ChangedSize)]_vars

\* C20: against a builtin set B, A <= B is "A is a subset of B", A < B is "A is a
\* proper subset of B", A >= B is "B is a subset of A", A > B is "B is a proper
\* subset of A", and issubset and issuperset give what <= and >= give
C20_Comparisons ==
    (pc = "set_done" /\ ret.op = "compare") =>
        LET S == AsSet(heap, A)
            T == ret.arg
        IN  /\ ret.value.le = (S \subseteq T)
            /\ ret.value.lt = (S \subseteq T /\ S # T)
            /\ ret.value.ge = (T \subseteq S)
            /\ ret.value.gt = (T \subseteq S /\ T # S)
            /\ ret.value.issubset = ret.value.le
            /\ ret.value.issuperset = ret.value.ge

(***************************************************************************)
(* Graph layout (graph_layout.pyx lines 22-163)                            *)
(*                                                                         *)
(* A Graph is [nodes, adj]: nodes is the tuple of node numbers and adj     *)
(* sends a node to the tuple of its neighbours.  Where the code holds an   *)
(* OrderedSet in a local variable the model holds the list of its keys,    *)
(* and every operation on it is done by the OrderedSet model on a heap of  *)
(* its own.                                                                *)
(***************************************************************************)
Graph(nodes, adj) == [nodes |-> nodes, adj |-> adj]

\* list(h's newest OrderedSet)
Listed(h) == Only({__iter__(made, NewRef(made)) : made \in {h}})
\* a heap that holds OrderedSet(c1) and OrderedSet(c2)
Pair(c1, c2) == Only({OrderedSet(one, c2) : one \in {OrderedSet(EmptyHeap, c1)}})

\* c1 & c2, c1 | c2, c1 - c2
intersection(c1, c2) == Only({Listed(__and__(pair, A, B)) : pair \in {Pair(c1, c2)}})
union(c1, c2) == Only({Listed(__or__(pair, A, B)) : pair \in {Pair(c1, c2)}})
difference(c1, c2) == Only({Listed(__sub__(pair, A, B)) : pair \in {Pair(c1, c2)}})
\* c.reverse() and c.add(elem)
reversed(c) ==
    Only({__iter__(turned, A) : turned \in {reverse(OrderedSet(EmptyHeap, c), A)}})
added(c, elem) ==
    Only({__iter__(grown, A) : grown \in {_add(OrderedSet(EmptyHeap, c), A, elem)}})

\* lines 195-201
_isorderedsubset(seq1, seq2) ==
    /\ Len(seq1) <= Len(seq2)
    /\ \A i \in 1 .. Len(seq1) : seq1[i] = seq2[i]

\* lines 407-409
isorderedsuperset(self, other) == _isorderedsubset(other, self)

\* lines 153-159: the predecessors of z up to the first one nbr has used
RECURSIVE PredChain(_, _, _)
PredChain(p, pn, pred) ==
    IF p \in pn THEN <<p>> ELSE <<p>> \o PredChain(pred[p], pn, pred)

\* one neighbour of z, where a cycle found is not noted in used[nbr]
VisitAndForget(w, z, zused, nbr) ==
    IF nbr \notin DOMAIN w.used
    THEN [w EXCEPT !.pred = Put(@, nbr, z),
                   !.stack = Append(@, nbr),
                   !.used = Put(@, nbr, {z})]
    ELSE IF nbr = z
    THEN [w EXCEPT !.cycles = Append(@, <<z>>)]
    ELSE IF nbr \notin zused
    THEN LET pn == w.used[nbr]
             cycle == Listed(__ior__(OrderedSet(EmptyHeap, <<nbr, z>>), A,
                                     PredChain(w.pred[z], pn, w.pred)))
         IN  [w EXCEPT !.cycles = Append(@, cycle)]
    ELSE w

\* lines 141-161: one neighbour of z; w is [stack, pred, used, cycles]
VisitNeighbour(w, z, zused, nbr) ==
    IF nbr \notin DOMAIN w.used
    THEN [w EXCEPT !.pred = Put(@, nbr, z),
                   !.stack = Append(@, nbr),
                   !.used = Put(@, nbr, {z})]
    ELSE IF nbr = z
    THEN [w EXCEPT !.cycles = Append(@, <<z>>)]
    ELSE IF nbr \notin zused
    THEN LET pn == w.used[nbr]
             cycle == Listed(__ior__(OrderedSet(EmptyHeap, <<nbr, z>>), A,
                                     PredChain(w.pred[z], pn, w.pred)))
         IN  [w EXCEPT !.cycles = Append(@, cycle),
                       !.used = Put(@, nbr, pn \cup {z})]
    ELSE w

RECURSIVE VisitNeighbours(_, _, _, _)
VisitNeighbours(w, z, zused, nbrs) ==
    IF nbrs = <<>> THEN w
    ELSE VisitNeighbours(VisitNeighbour(w, z, zused, Head(nbrs)), z, zused, Tail(nbrs))

\* lines 136-161: walk the spanning tree of one component
RECURSIVE WalkTree(_, _)
WalkTree(w, adj) ==
    IF w.stack = <<>> THEN w
    ELSE LET z == w.stack[Len(w.stack)]
             w1 == [w EXCEPT !.stack = SubSeq(@, 1, Len(@) - 1)]
         IN  WalkTree(VisitNeighbours(w1, z, w1.used[z], adj[z]), adj)

\* lines 129-163: the loop over the connected components; set.pop() of a set of
\* small ints gives the smallest
RECURSIVE Components(_, _, _)
Components(g_nodes, cs, adj) ==
    IF g_nodes = {} THEN cs
    ELSE LET root == Min(g_nodes)
             w == WalkTree([stack |-> <<root>>, pred |-> Put(EmptyMap, root, root),
                            used |-> Put(EmptyMap, root, {}), cycles |-> cs], adj)
         IN  Components(g_nodes \ DOMAIN w.pred, w.cycles, adj)

\* lines 118-163
cycle_basis(g) == Components(Range(g.nodes), <<>>, g.adj)

\* what outer_loop and outer_loop_layout give: a value or the exception raised
Gives(value) == <<"return", value>>
InvalidGraph == <<"ValueError: Invalid graph", <<>>>>
PopFromEmptyList == <<"IndexError: pop from empty list", <<>>>>
PopFromEmptySet == <<"KeyError: OrderedSet is empty", <<>>>>
NoReflectedSub == <<"TypeError: unsupported operand type(s) for -", <<>>>>
NeverReturns == <<"never returns", <<>>>>

\* lines 101-110: the indices of the cycles that share two nodes or more with c1
Contacted(c1, cs) ==
    {i \in DOMAIN cs : Len(intersection(c1, cs[i])) >= 2}

\* lines 104-106: c2 as it is after the direction test
Directed(c1, c2) ==
    LET c3 == intersection(c1, c2)
    IN  IF isorderedsuperset(c1, c3) = isorderedsuperset(c2, c3) THEN reversed(c2) ELSE c2

\* list.remove(x): without the first element equal to x
Without(l, x) ==
    LET i == Min({j \in DOMAIN l : l[j] = x})
    IN  SubSeq(l, 1, i - 1) \o SubSeq(l, i + 1, Len(l))

\* lines 99-113: one pass of the while loop; the list has two cycles or more
MergeOnce(cs) ==
    LET c1 == cs[Len(cs)]
        rest == SubSeq(cs, 1, Len(cs) - 1)
        i == Min(Contacted(c1, rest))
        c2 == Directed(c1, rest[i])
    IN  Append(Without([rest EXCEPT ![i] = c2], c2), union(c1, c2))

\* lines 107-110: the for loop ends without a break
NoContact(cs) ==
    Contacted(cs[Len(cs)], SubSeq(cs, 1, Len(cs) - 1)) = {}

\* line 115: cycles.pop()
LastCycle(cs) ==
    IF cs = <<>> THEN PopFromEmptyList ELSE Gives(cs[Len(cs)])

\* lines 98-115: the while loop
RECURSIVE MergeAll(_)
MergeAll(cs) ==
    IF ~(Len(cs) > 1) THEN LastCycle(cs)
    ELSE IF NoContact(cs) THEN InvalidGraph
    ELSE MergeAll(MergeOnce(cs))

\* lines 94-115
outer_loop(g) == MergeAll(cycle_basis(g))

\* lines 68-79: position i of a regular polygon, as <<radius, a, b>> for the
\* angle a/b of a turn: 3/4 of a turn less i steps of 1/edge_count
regular_polygon_pos(edge_count) ==
    [i \in 1 .. edge_count |-> <<10, (3 * edge_count) - (4 * (i - 1)), 4 * edge_count>>]

\* lines 82-91: the i-th of count points that divide c0..c1 in count + 1 parts;
\* count is len(line) at the one call, never below 1 (line 84)
linear_layout(c0, c1, count) ==
    [i \in 1 .. count |-> [from |-> c0, to |-> c1, step |-> i, of |-> count + 1]]

\* dict(zip(keys, values)) and dict.update(zip(keys, values))
Zip(d, keys, values) ==
    LET n == Min({Len(keys), Len(values)})
        at(k) == Max({i \in 1 .. n : keys[i] = k})
    IN  [k \in DOMAIN d \cup {keys[i] : i \in 1 .. n} |->
            IF k \in {keys[i] : i \in 1 .. n} THEN values[at(k)] ELSE d[k]]

\* line 40-41: n touches a node that is placed or on the line
Touches(s, g, n) ==
    intersection(Listed(OrderedSet(EmptyHeap, g.adj[n])), union(s.used_nodes, s.line)) # <<>>

\* lines 38-61: the while loop; s is [nodes, line, used_nodes, pos].  The build
\* decides what a KeyError in `cpdef void remove` does: "drop" loses it (a void
\* function cannot hand an exception to its caller), "raise" lets it out
RECURSIVE LayoutLoop(_, _, _, _)
LayoutLoop(s, g, o_loop, build) ==
    IF s.nodes = <<>> THEN Gives(s.pos)
    ELSE IF \A m \in Range(s.nodes) : ~Touches(s, g, m) THEN NeverReturns
    ELSE
    LET n == Head(s.nodes)
        popped == Tail(s.nodes)
        neighbors == Listed(OrderedSet(EmptyHeap, g.adj[n]))
        touched == intersection(neighbors, union(s.used_nodes, s.line))
        line == added(s.line, n)
        new_neighbors == difference(neighbors, touched)
        ends == intersection(line, o_loop)
        start == ends[Len(ends)]
        end == ends[Len(ends) - 1]
        grown == [s EXCEPT !.nodes = popped,
                           !.line = added(line, new_neighbors[Len(new_neighbors)])]
        placed == [s EXCEPT !.nodes = popped,
                            !.pos = Zip(@, line, linear_layout(s.pos[start], s.pos[end],
                                                               Len(line))),
                            !.used_nodes = union(@, line),
                            !.line = <<>>]
        Remove(t) ==
            IF n \notin Range(t.nodes) /\ build = "raise" THEN <<"KeyError", <<n>>>>
            ELSE LayoutLoop([t EXCEPT !.nodes = Rest(@, {n})], g, o_loop, build)
    IN  IF touched = <<>>
        THEN LayoutLoop([s EXCEPT !.nodes = added(popped, n)], g, o_loop, build)
        ELSE IF new_neighbors # <<>> THEN Remove(grown)
        ELSE IF Len(ends) < 2 THEN PopFromEmptySet
        ELSE Remove(placed)

\* lines 22-65.  `set(g.nodes) - o_loop` has a builtin set on the left: a build
\* where OrderedSet.__sub__ also serves the reflected operation ("drop", Cython
\* before 3) takes the difference, a build that asks for __rsub__ ("raise",
\* Cython 3) raises TypeError
outer_loop_layout(g, build) ==
    LET loop == outer_loop(g)
        o_loop == loop[2]
        outer_pos == regular_polygon_pos(Len(o_loop))
        loop_pos == Zip(EmptyMap, o_loop, outer_pos)
        nodes == difference(SetToSeq(Range(g.nodes)), o_loop)
    IN  IF loop[1] # "return" THEN loop
        ELSE IF build = "raise" THEN NoReflectedSub
        ELSE LayoutLoop([nodes |-> nodes, line |-> <<>>, used_nodes |-> o_loop,
                         pos |-> loop_pos], g, o_loop, build)

(***************************************************************************)
(* The caller of the layout functions: it passes a simple graph, with the  *)
(* adjacency tuples in any order.                                          *)
(***************************************************************************)
MaxEdges == 4

NodeCounts == {3, 4, 5}

Edges(V) == {e \in SUBSET V : Cardinality(e) = 2}
Neighbours(v, E) == {u \in UNION E : {u, v} \in E /\ u # v}

RECURSIVE Orders(_)
Orders(S) == IF S = {} THEN {<<>>}
             ELSE UNION {{<<x>> \o o : o \in Orders(S \ {x})} : x \in S}

\* every adjacency map of the graph (V, E)
RECURSIVE Adjacencies(_, _)
Adjacencies(V, E) ==
    IF V = {} THEN {EmptyMap}
    ELSE LET v == Max(V)
         IN  {Put(adj, v, o) : adj \in Adjacencies(V \ {v}, E), o \in Orders(Neighbours(v, E))}

\* graphs with more edges: a polygon, two triangles that share an edge, the
\* complete graph on four nodes, two triangles that share a node
Polygon(n) == {{i, (i + 1) % n} : i \in 0 .. (n - 1)}
TwoTriangles == Polygon(4) \cup {{0, 2}}
Complete == Edges(0 .. 3)
Bowtie == Polygon(3) \cup {{0, 3}, {3, 4}, {4, 0}}
Catalogue(n) ==
    IF n = 4 THEN {TwoTriangles, Complete}
    ELSE IF n = 5 THEN {Polygon(5), Bowtie}
    ELSE {}

\* the same graph with its nodes numbered in another way
Numberings(V) == {f \in [V -> V] : \A u, v \in V : f[u] = f[v] => u = v}
Renumbered(E, f) == {{f[u] : u \in e} : e \in E}

\* the simple graphs on n nodes with at most MaxEdges edges, and the graphs of
\* the catalogue under every numbering
EdgeSets(n) ==
    {E \in SUBSET Edges(0 .. (n - 1)) : Cardinality(E) <= MaxEdges}
    \cup {Renumbered(E, f) : E \in Catalogue(n), f \in Numberings(0 .. (n - 1))}

\* everything but the graph layout variables
OutsideGraph == <<lists, vpoints_, inputs, tvars, svars, dof_was, heap, iter, changed, ops>>
GraphRest == <<OutsideGraph, laid>>

InitGraph ==
    /\ lists = << <<>> >>
    /\ vpoints_ = 1
    /\ inputs = <<>>
    /\ pc = "graph"
    /\ NoFrame
    /\ mapping = NoMapping
    /\ angles = <<>>
    /\ NoCall
    /\ NoSets
    /\ \E n \in NodeCounts : \E E \in EdgeSets(n) : \E adj \in Adjacencies(0 .. (n - 1), E) :
        graph = Graph(SetToSeq(0 .. (n - 1)), adj)
    /\ cycles = <<>>
    /\ laid = NoLayout

\* cycles = cycle_basis(graph)
CallCycleBasis ==
    /\ pc = "graph"
    /\ cycles' = cycle_basis(graph)
    /\ ret' = Called("cycle_basis", <<>>, Gives(cycles'))
    /\ pc' = "outer_loop"
    /\ UNCHANGED <<graph, GraphRest>>

\* lines 98-113: one pass of the while loop of outer_loop
Merge ==
    /\ pc = "outer_loop"
    /\ Len(cycles) > 1
    /\ ~NoContact(cycles)
    /\ cycles' = MergeOnce(cycles)
    /\ ret' = Called("merge", <<>>, Gives(cycles'))
    /\ UNCHANGED <<pc, graph, GraphRest>>

\* line 110
MergeFails ==
    /\ pc = "outer_loop"
    /\ Len(cycles) > 1
    /\ NoContact(cycles)
    /\ cycles' = SubSeq(cycles, 1, Len(cycles) - 1)
    /\ ret' = Called("outer_loop", <<>>, InvalidGraph)
    /\ pc' = "loop_done"
    /\ UNCHANGED <<graph, GraphRest>>

\* line 115
LoopReturns ==
    /\ pc = "outer_loop"
    /\ ~(Len(cycles) > 1)
    /\ cycles' = SubSeq(cycles, 1, Len(cycles) - 1)
    /\ ret' = Called("outer_loop", <<>>, LastCycle(cycles))
    /\ pc' = "loop_done"
    /\ UNCHANGED <<graph, GraphRest>>

\* pos = outer_loop_layout(graph, node_mode), on either build
CallLayout ==
    /\ pc = "graph"
    /\ \E build \in {"raise", "drop"} :
        ret' = Called("outer_loop_layout", build, outer_loop_layout(graph, build))
    /\ pc' = "layout_done"
    /\ UNCHANGED <<graph, cycles, GraphRest>>

NextGraph == CallCycleBasis \/ Merge \/ MergeFails \/ LoopReturns \/ CallLayout

SpecGraph == InitGraph /\ [][NextGraph]_vars

(***************************************************************************)
(* Graph layout: properties                                                *)
(***************************************************************************)
NodeSet == Range(graph.nodes)
Adjacent(u, v) == u # v /\ v \in Range(graph.adj[u])
EdgeSet == {e \in Edges(NodeSet) : \E u, v \in e : Adjacent(u, v)}

\* the nodes that can be reached from the nodes of S
RECURSIVE Reachable(_)
Reachable(S) ==
    LET more == S \cup {v \in NodeSet : \E u \in S : Adjacent(u, v)}
    IN  IF more = S THEN S ELSE Reachable(more)

ConnectedComponents == {Reachable({v}) : v \in NodeSet}
Connected == Cardinality(ConnectedComponents) = 1
IsPolygon == Connected /\ \A v \in NodeSet : Len(graph.adj[v]) = 2

\* c lists a cycle of the graph
IsCycle(c) ==
    /\ Len(c) >= 3
    /\ NoDuplicate(c)
    /\ \A i \in DOMAIN c : Adjacent(c[i], c[(i % Len(c)) + 1])

BasisReturned == pc = "outer_loop" /\ ret.op = "cycle_basis"

\* C14: cycle_basis returns |E| - |V| + (number of connected components) cycles,
\* each of them a cycle of the graph; for a polygon it returns one cycle that
\* holds every node
C14_CycleBasis ==
    BasisReturned =>
        /\ Len(cycles) = Cardinality(EdgeSet) - Cardinality(NodeSet)
                           + Cardinality(ConnectedComponents)
        /\ \A i \in DOMAIN cycles : IsCycle(cycles[i])
        /\ IsPolygon => (Len(cycles) = 1 /\ Range(cycles[1]) = NodeSet)

\* a basis of three cycles was returned for a graph whose adjacency tuples are
\* not all ascending
C14_Witness ==
    /\ BasisReturned
    /\ Len(cycles) = 3
    /\ \E v \in NodeSet : graph.adj[v] # SetToSeq(Range(graph.adj[v]))

\* the graph is two triangles that share an edge; SharedEdge is that edge
IsTwoTriangles == Cardinality(NodeSet) = 4 /\ Cardinality(EdgeSet) = 5
SharedEdge == {v \in NodeSet : Len(graph.adj[v]) = 3}

LoopReturned == pc = "loop_done" /\ ret.op = "outer_loop"

\* c, read round, follows edges of the graph other than the shared edge
TracesBoundary(c) ==
    \A i \in DOMAIN c :
        LET u == c[i]
            v == c[(i % Len(c)) + 1]
        IN  Adjacent(u, v) /\ {u, v} # SharedEdge

\* C15: for two triangles that share an edge outer_loop returns the four nodes
\* in an order that traces the outer boundary: consecutive nodes, and the last
\* with the first, are joined by an edge other than the shared edge
C15_OuterBoundary ==
    (LoopReturned /\ IsTwoTriangles) =>
        /\ ret.value[1] = "return"
        /\ Len(ret.value[2]) = 4
        /\ Range(ret.value[2]) = NodeSet
        /\ TracesBoundary(ret.value[2])

\* the nodes of the cycles of the basis
BasisNodes == UNION {Range(c) : c \in Range(cycle_basis(graph))}

\* the step puts the union of the last cycle and one other in their place
ReplacesTwo ==
    /\ Len(cycles') = Len(cycles) - 1
    /\ \E i \in 1 .. (Len(cycles) - 1) :
        /\ Range(cycles'[Len(cycles')]) = Range(cycles[Len(cycles)]) \cup Range(cycles[i])
        /\ SubSeq(cycles', 1, Len(cycles') - 1)
             = SubSeq(cycles, 1, i - 1) \o SubSeq(cycles, i + 1, Len(cycles) - 1)

\* C16: outer_loop raises 'Invalid graph' exactly when the cycle taken from the
\* list shares fewer than two nodes with every other cycle of the list; otherwise
\* each step replaces two cycles by their union, the list gets one shorter, and
\* the one cycle left, which holds the nodes of all cycles of the basis, is returned
C16_MergeSteps ==
    [][pc = "outer_loop" =>
        /\ (ret'.value = InvalidGraph) <=> (Len(cycles) > 1 /\ NoContact(cycles))
        /\ ret'.op = "merge" => ReplacesTwo
        /\ (ret'.op = "outer_loop" /\ ret'.value # InvalidGraph) =>
              (ret'.value[1] = "return" /\ Range(ret'.value[2]) = BasisNodes)]_vars

HasCycle == Cardinality(EdgeSet) - Cardinality(NodeSet) + Cardinality(ConnectedComponents) > 0

LayoutReturned == pc = "layout_done" /\ ret.op = "outer_loop_layout"

\* the loop the layout starts from
OuterLoop == outer_loop(graph)[2]

\* position i of the loop is the i-th position of the polygon
OnPolygon(layout) ==
    \A i \in DOMAIN OuterLoop :
        layout[OuterLoop[i]] = regular_polygon_pos(Len(OuterLoop))[i]

\* a node off the loop has a position on a line between two placed nodes
OnLines(layout) ==
    \A n \in NodeSet \ Range(OuterLoop) :
        \E a, b \in DOMAIN layout : \E k, m \in 1 .. Cardinality(NodeSet) :
            layout[n] = [from |-> layout[a], to |-> layout[b], step |-> k, of |-> m]

\* C17: for a connected graph with a cycle outer_loop_layout returns a mapping
\* whose keys are the nodes of the graph, the loop nodes on the polygon in loop
\* order and every other node on a completed line between two placed nodes; for
\* a graph without a cycle the call fails with the invalid-graph error
C17_Layout ==
    LayoutReturned =>
        /\ (Connected /\ HasCycle) =>
              /\ ret.value[1] = "return"
              /\ DOMAIN ret.value[2] = NodeSet
              /\ OnPolygon(ret.value[2])
              /\ OnLines(ret.value[2])
        /\ ~HasCycle => ret.value = InvalidGraph

(***************************************************************************)
(* pllp in floating point (tinycadlib.pyx lines 84-116)                    *)
(*                                                                         *)
(* A double operation gives the representable number nearest to the exact  *)
(* result.  Here a number is kept as its count of units of 1/Unit, the     *)
(* representable numbers are those with at most Precision significant      *)
(* bits, and every operation rounds its exact result to the nearest of     *)
(* them, ties to even.                                                     *)
(***************************************************************************)
Precision == 5
MaxCoord == 6
Unit == 2 ^ 3

\* the integer nearest to n / m, for m > 0
Nearest(n, m) ==
    LET q == n \div m
        r == n - (q * m)
    IN  IF 2 * r > m THEN q + 1
        ELSE IF 2 * r = m THEN q + (q % 2)
        ELSE q

\* the spacing of the representable numbers around n / m
RECURSIVE Spacing(_, _, _)
Spacing(n, m, s) == IF n < (2 ^ Precision) * s * m THEN s ELSE Spacing(n, m, 2 * s)

\* the representable number nearest to n / m
Rounded(n, m) ==
    LET s == Spacing(IF n < 0 THEN -n ELSE n, m, 1) IN Nearest(n, m * s) * s

times(a, b) == IF a = NaN \/ b = NaN THEN NaN ELSE Rounded(a * b, Unit)       \* a * b
\* a / b; with cdivision a division by zero raises nothing and gives inf or NaN
over(a, b) == IF a = NaN \/ b = NaN \/ b = 0 THEN NaN
              ELSE IF b > 0 THEN Rounded(a * Unit, b) ELSE Rounded(-(a * Unit), -b)
plus(a, b) == IF a = NaN \/ b = NaN THEN NaN ELSE Rounded(a + b, 1)           \* a + b
minus(a, b) == IF a = NaN \/ b = NaN THEN NaN ELSE Rounded(a - b, 1)          \* a - b
\* the root of n square units, in units
RoundedRoot(n) ==
    LET fine == n * (2 ^ Precision) * (2 ^ Precision)
    IN  Rounded(IsqrtIter(fine, 0, IF fine < 40000 THEN fine ELSE 40000), 2 ^ Precision)
root(a) == IF a = NaN \/ a < 0 THEN NaN ELSE RoundedRoot(a * Unit)            \* sqrt(a)

\* Coordinate.distance: hypot rounds once
RoundedDistance(dx, dy) == RoundedRoot((dx * dx) + (dy * dy))

\* lines 84-116, operation by operation
pllp_rounded(c1, d0, d1, c2, inverse) ==
    LET dx == minus(c2[1], c1[1])
        dy == minus(c2[2], c1[2])
        d == RoundedDistance(dx, dy)
        a == over(plus(minus(times(d0, d0), times(d1, d1)), times(d, d)), times(2 * Unit, d))
        h == root(minus(times(d0, d0), times(a, a)))
        xm == plus(c1[1], over(times(a, dx), d))
        ym == plus(c1[2], over(times(a, dy), d))
    IN  IF d > plus(d0, d1) THEN Failed
        ELSE IF d < Abs(minus(d0, d1)) THEN Failed
        ELSE IF d = 0 /\ d0 = d1 THEN Failed
        ELSE IF inverse
        THEN <<plus(xm, over(times(h, dy), d)), minus(ym, over(times(h, dx), d))>>
        ELSE <<minus(xm, over(times(h, dy), d)), plus(ym, over(times(h, dx), d))>>

(***************************************************************************)
(* The caller of pllp: two centres on the grid and two radii               *)
(***************************************************************************)
\* whole numbers, in units
GridNumbers == {n * Unit : n \in 0 .. MaxCoord}
GridPoints == GridNumbers \X GridNumbers
NearOrigin == {0, Unit} \X {0, Unit}

KernelRest == <<lists, vpoints_, inputs, tvars, svars, dof_was, heap, iter, changed, ops,
                graph, cycles, laid>>

InitKernel ==
    /\ lists = << <<>> >>
    /\ vpoints_ = 1
    /\ inputs = <<>>
    /\ pc = "kernel"
    /\ NoFrame
    /\ mapping = NoMapping
    /\ angles = <<>>
    /\ NoCall
    /\ NoGraph
    /\ heap = EmptyHeap
    /\ NoIterator
    /\ \E c1 \in NearOrigin, c2 \in GridPoints, d0, d1 \in GridNumbers, inverse \in BOOLEAN :
        ret = Called("", <<c1, d0, d1, c2, inverse>>, <<>>)

\* pllp(c1, d0, d1, c2, inverse)
CallPllp ==
    /\ pc = "kernel"
    /\ ret' = Called("pllp", ret.arg,
                     pllp_rounded(ret.arg[1], ret.arg[2], ret.arg[3], ret.arg[4], ret.arg[5]))
    /\ pc' = "kernel_done"
    /\ UNCHANGED KernelRest

NextKernel == CallPllp

SpecKernel == InitKernel /\ [][NextKernel]_vars

\* the distance of the two centres of the call, and the two radii
CentreDistance == RoundedDistance(ret.arg[4][1] - ret.arg[1][1], ret.arg[4][2] - ret.arg[1][2])
Radius1 == ret.arg[2]
Radius2 == ret.arg[3]

NoIntersection ==
    \/ CentreDistance > plus(Radius1, Radius2)
    \/ CentreDistance < Abs(minus(Radius1, Radius2))
    \/ CentreDistance = 0 /\ Radius1 = Radius2

\* C18: pllp returns (NaN, NaN) exactly when d > r1 + r2, or d < |r1 - r2|, or
\* d == 0 and r1 == r2, and a defined point otherwise; whenever d == 0 one of the
\* three cases applies, so it never divides by d == 0
C18_FailsExactlyWhen ==
    (pc = "kernel_done" /\ ret.op = "pllp") =>
        /\ NoIntersection <=> ret.value = Failed
        /\ ~NoIntersection => (IsNum(ret.value[1]) /\ IsNum(ret.value[2]))
        /\ CentreDistance = 0 => NoIntersection

(***************************************************************************)
(* expr_parser: what one expression writes, and the unrecognized kind      *)
(***************************************************************************)
\* the expression expr_parser is about to replay
AtExpression == pc = "expr_parser" /\ parsed < Len(exprs)

\* ... and its function kind is none of the five
UnsupportedNext == AtExpression /\ exprs[parsed + 1].func \notin Funcs

\* the step writes the key of the target of the expression and no other key
WritesOnlyTarget ==
    LET name == TargetName(exprs[parsed + 1])
    IN  /\ DOMAIN data_dict' = DOMAIN data_dict \cup {name}
        /\ \A k \in DOMAIN data_dict \ {name} : data_dict'[k] = data_dict[k]
        /\ parsed' = parsed + 1

\* the step ends the call with 'unsupported function' and writes nothing
RaisesUnsupported == outcome' = Raise(Unsupported) /\ data_dict' = data_dict

\* C19: expr_parser replays the stack in order and each expression writes exactly the
\* key of its target, leaving every other key unchanged; at an expression of an
\* unrecognized function kind it raises 'unsupported function' and writes nothing for
\* that expression and the later ones
C19_ParserWrites ==
    [][/\ Parse => WritesOnlyTarget
       /\ UnsupportedNext => RaisesUnsupported]_vars

(***************************************************************************)
(* Properties of the main loop of t_config                                 *)
(***************************************************************************)
\* the loop is at an unsolved joint (lines 351-469)
AtUnsolved == InLoop("input") \/ InLoop("revolute") \/ InLoop("prismatic") \/ InLoop("slider")

\* the iteration places a joint: PLA of an input target, PLLP, PXY or the RP sequence
Placement == AtUnsolved /\ status' # status

\* the iteration leaves the joint unsolved
Skipped == AtUnsolved /\ status' = status /\ node' # node

\* t_config returned from the loop with a joint unsolved
ReturnedUnsolved == pc = "t_done" /\ vpoints # 0 /\ ~_is_all_lock(status)

PlacementResets == [][Placement => skip_times' = 0]_vars
SkipIncrements == [][Skipped => skip_times' = skip_times + 1]_vars
UnproductivePass == [](ReturnedUnsolved => idle >= around)

\* C21: every placement of a joint in the main loop resets skip_times to 0 and every
\* skip increments it; so when t_config returns with a joint unsolved, the last
\* `around` iterations of the loop placed no joint
C21_SkipTimes == PlacementResets /\ SkipIncrements /\ UnproductivePass

(***************************************************************************)
(* SpecLoop: t_config called with a status map of the caller, the loop     *)
(* scheduled until it ends                                                 *)
(***************************************************************************)
\* the status maps a caller passes: none, or one entry for a joint or for an index
\* past the joint list
StatusMaps(vp) ==
    {EmptyMap} \cup {[k \in {n} |-> b] : n \in {0, Len(vp), Len(vp) + 1}, b \in BOOLEAN}

InitLoop ==
    /\ \E m \in Mechanisms :
        /\ lists = <<m>>
        /\ inputs \in InputLists(m)
        /\ status \in StatusMaps(m)
    /\ vpoints_ = 1
    /\ pc = "t_config"
    /\ NoLocals
    /\ NoCall
    /\ NoSets
    /\ NoGraph
    /\ mapping = NoMapping
    /\ angles = <<>>

\* line 350: vpoints[node] with a node past the list, bounds checks switched off
\* (line 237): the read is undefined; the call dies or raises on the value it got
LoopOutOfRange ==
    /\ InLoop("out_of_range")
    /\ pc' \in {"t_crashed", "t_raised"}
    /\ UNCHANGED <<lists, vpoints_, inputs, tvars, svars, xvars>>

NextLoop == Next \/ LoopOutOfRange

SpecLoop == InitLoop /\ [][NextLoop]_vars /\ WF_vars(NextLoop)

\* the main loop has ended the way line 339 or line 345 ends it
LoopEnded ==
    /\ pc = "t_done"
    /\ vpoints # 0 => (_is_all_lock(status) \/ skip_times >= Cardinality(DOMAIN status))

\* the loop is left by an out-of-range read
ReadPastList == pc \in {"t_crashed", "t_raised"}

\* C22: for every joint list, list of input pairs and status map the main loop of
\* t_config terminates, with every status true or with skip_times at the number of
\* status entries; it cannot cycle forever
C22_LoopTerminates == <>LoopEnded

\* the loop terminates, one way or the other
Terminates == <>(LoopEnded \/ ReadPastList)

\* the loop terminates as claimed when every key of the status map is a joint index
TerminatesForJointKeys ==
    (DOMAIN status \subseteq Idx(lists[vpoints_])) => <>LoopEnded

\* the working joints `a` and `b` are on a common link
ShareLink(a, b) == Range(Joint(WorkList, a).links) \cap Range(Joint(WorkList, b).links) # {}

\* expression k is the PLLP of a revolute joint that is not an input target
RevolutePllp(k) ==
    /\ exprs[k].func = PLLP
    /\ Target(exprs[k])[1] = P_LABEL
    /\ Joint(WorkList, Target(exprs[k])[2]).type = R
    /\ Target(exprs[k])[2] \notin input_targets(inputs)

\* its two operand joints are two different solved friends of the joint
TwoFriends(k) ==
    LET n == Target(exprs[k])[2]
        fa == exprs[k].c1[2]
        fb == exprs[k].c2[2]
    IN  /\ fa # fb /\ fa # n /\ fb # n
        /\ emitted[k][fa] /\ emitted[k][fb]
        /\ ShareLink(fa, n) /\ ShareLink(fb, n)

\* C23: every PLLP t_config emits for a revolute, non-input joint n reads two joints
\* fa and fb that differ from each other and from n, are solved at emission and share
\* a link with n, also when one solved friend shares two links with n
C23_DistinctFriends ==
    vpoints # 0 => \A k \in DOMAIN exprs : RevolutePllp(k) => TwoFriends(k)

\* the same without the requirement that fa and fb differ
FriendsSolvedOnLinks ==
    vpoints # 0 => \A k \in DOMAIN exprs : RevolutePllp(k) =>
        LET n == Target(exprs[k])[2]
            fa == exprs[k].c1[2]
            fb == exprs[k].c2[2]
        IN  /\ fa # n /\ fb # n
            /\ emitted[k][fa] /\ emitted[k][fb]
            /\ ShareLink(fa, n) /\ ShareLink(fb, n)

\* the working joint n is an RP joint off the frame, not driven by an input, with a
\* solved friend on its second link and two other joints on its primary link
FloatingWithFriends(n) ==
    LET v == Joint(WorkList, n)
    IN  /\ v.type = RP
        /\ n \notin input_targets(inputs)
        /\ ~grounded(v)
        /\ Len(v.links) >= 2
        /\ \E f \in vlinks[v.links[2]] \ {n} : status[f]
        /\ Cardinality(vlinks[v.links[1]] \ {n}) >= 2

\* the stack holds, one after the other, the PLLP of joint n, the PLLP of its S point
\* and the PLPP of joint n
SliderSequence(n) ==
    \E k \in DOMAIN exprs :
        /\ k + 2 \in DOMAIN exprs
        /\ exprs[k].func = PLLP /\ Target(exprs[k]) = sym(P_LABEL, n)
        /\ exprs[k + 1].func = PLLP /\ Target(exprs[k + 1]) = sym(S_LABEL, n)
        /\ exprs[k + 2].func = PLPP /\ Target(exprs[k + 2]) = sym(P_LABEL, n)

\* C24: an RP joint off the frame with a solved friend on a non-primary link and two
\* friends on its primary link is placed: t_config emits the PLLP of the joint from fb
\* and fd, then the PLLP of S{node}, then the PLPP of the joint, and sets its status
C24_FloatingSlider ==
    (pc = "t_done" /\ vpoints # 0) =>
        \A n \in Idx(WorkList) : FloatingWithFriends(n) => (status[n] /\ SliderSequence(n))

\* no call ever emits the PLLP of an RP joint itself (lines 428-438)
NeverFloatingPllp ==
    vpoints # 0 => \A k \in DOMAIN exprs :
        ~(exprs[k].func = PLLP /\ Target(exprs[k])[1] = P_LABEL
          /\ Joint(WorkList, Target(exprs[k])[2]).type = RP)

\* no RP joint off the frame is ever solved, unless an input drives it
NeverFloatingSolved ==
    vpoints # 0 => \A n \in Idx(WorkList) :
        (/\ Joint(WorkList, n).type = RP
         /\ ~grounded(Joint(WorkList, n))
         /\ n \notin input_targets(inputs)) => ~status[n]

(***************************************************************************)
(* Properties of the P-to-RP normalization                                 *)
(***************************************************************************)
\* the list object t_config worked on, and the one data_collecting worked on
SynthesizedCopy == lists[vpoints_ + 1]
CollectedCopy == lists[vpoints_ + 2]

\* t_config has normalized a copy; data_collecting has normalized one too
Synthesized == pc # "synthesize" /\ inputs # <<>> /\ Len(Caller) # 0
BothNormalized == Synthesized /\ Len(lists) >= vpoints_ + 2

\* `p` is a grounded P joint and the revolute joint `v` is on one of its other links
BlockFriend(p, v) ==
    /\ p.type = P /\ grounded(p)
    /\ v.type = R
    /\ Range(Tail1(p.links)) \cap Range(v.links) # {}

\* a list without its repeated elements, first occurrences kept
RECURSIVE NoRepeats(_)
NoRepeats(l) ==
    IF l = <<>> THEN <<>>
    ELSE LET front == NoRepeats(SubSeq(l, 1, Len(l) - 1))
         IN  IF l[Len(l)] \in Range(front) THEN front ELSE Append(front, l[Len(l)])

\* the RP joint that stands for `v`: the primary link of `p`, then the links of `v`
MergedLinks(p, v) == NoRepeats(<<p.links[1]>> \o v.links)

SameJointsReplaced(vp) ==
    \A n \in Idx(Caller) :
        IF \E b \in Idx(Caller) \ {n} : BlockFriend(Joint(Caller, b), Joint(Caller, n))
        THEN Joint(vp, n).type = RP
        ELSE Joint(vp, n) = Joint(Caller, n)

Replaced(vp) == {n \in Idx(Caller) : Joint(vp, n) # Joint(Caller, n)}

LinksMerged(vp) ==
    \A n \in Replaced(vp) : \E b \in Idx(Caller) \ {n} :
        Joint(vp, n).links = MergedLinks(Joint(Caller, b), Joint(Caller, n))

AngleKept(vp) == \A n \in Replaced(vp) : Joint(vp, n).angle = Joint(Caller, n).angle

PositionKept(vp) == \A n \in Replaced(vp) : Joint(vp, n).c[1] = Joint(Caller, n).c[1]

\* C25: after the normalization of t_config every revolute joint on a non-primary link
\* of a grounded P joint is an RP joint with the P joint's primary link followed by its
\* own links without duplicates, its own angle and its own position; every other joint
\* is unchanged; data_collecting normalizes the same joints in the same way
C25_Normalization ==
    /\ Synthesized =>
        /\ Len(SynthesizedCopy) = Len(Caller)
        /\ SameJointsReplaced(SynthesizedCopy)
        /\ LinksMerged(SynthesizedCopy)
        /\ AngleKept(SynthesizedCopy)
        /\ PositionKept(SynthesizedCopy)
    /\ BothNormalized => CollectedCopy = SynthesizedCopy

C25a == Synthesized => SameJointsReplaced(SynthesizedCopy)
C25b == Synthesized => LinksMerged(SynthesizedCopy)
C25c == Synthesized => AngleKept(SynthesizedCopy)
C25d == Synthesized => PositionKept(SynthesizedCopy)
C25e == BothNormalized => CollectedCopy = SynthesizedCopy

(***************************************************************************)
(* Properties of the symbols of a synthesized stack                        *)
(***************************************************************************)
\* the stack in exprs is the one t_config returned for the inputs
FromTConfig == pc # "synthesize" /\ inputs # <<>>

IsLength(s) == s[1] = L_LABEL

\* the length symbols of the stack, slot by slot in stack order
RECURSIVE LengthSlots(_)
LengthSlots(es) ==
    IF es = <<>> THEN <<>>
    ELSE SelectSeq(<<Head(es).v1, Head(es).v2>>, IsLength) \o LengthSlots(Tail(es))

IsPla(e) == e.func = PLA

\* the PLA expressions of the stack, in stack order
Plas(es) == SelectSeq(es, IsPla)

PoppedCycle == cycles[Len(cycles)]
RemainingCycles == SubSeq(cycles, 1, Len(cycles) - 1)
ContactedCycle == RemainingCycles[Min(Contacted(PoppedCycle, RemainingCycles))]

\* the shared nodes as c lists them
SharedIn(c, d) == Keep(c, Range(d))
SameOrder(c1, c2) == SharedIn(c1, c2) = SharedIn(c2, c1)
OppositeOrder(c1, c2) == SharedIn(c1, c2) = reversed(SharedIn(c2, c1))

\* c2 goes into the union reversed exactly when expected says so
MergedAs(c1, c2, turned) ==
    /\ Directed(c1, c2) = IF turned THEN reversed(c2) ELSE c2
    /\ cycles'[Len(cycles')] = union(c1, IF turned THEN reversed(c2) ELSE c2)

\* C27: in a merge step c2 is reversed before the union exactly when the shared
\* nodes appear in the same relative order in c1 and in c2, and is left as it
\* is when they appear in opposite order
C27_ReversedWhenSameOrder ==
    [][Merge => MergedAs(PoppedCycle, ContactedCycle,
                         SameOrder(PoppedCycle, ContactedCycle))]_vars

\* what the code tests: the shared nodes, in c1's order, begin both cycles or
\* begin neither
BeginsWith(c, c3) == SubSeq(c, 1, Len(c3)) = c3
ReversedWhenBothBegin ==
    [][Merge =>
        LET c1 == PoppedCycle
            c2 == ContactedCycle
            c3 == SharedIn(c1, c2)
        IN  MergedAs(c1, c2, BeginsWith(c1, c3) = BeginsWith(c2, c3))]_vars

\* a merge that reverses a cycle whose shared nodes run in the opposite order
ReversedInOppositeOrder ==
    /\ pc = "outer_loop"
    /\ Len(cycles) > 1
    /\ ~NoContact(cycles)
    /\ OppositeOrder(PoppedCycle, ContactedCycle)
    /\ ~SameOrder(PoppedCycle, ContactedCycle)
    /\ Directed(PoppedCycle, ContactedCycle) = reversed(ContactedCycle)

\* a merge that leaves a cycle alone whose shared nodes run in the same order
KeptInSameOrder ==
    /\ pc = "outer_loop"
    /\ Len(cycles) > 1
    /\ ~NoContact(cycles)
    /\ SameOrder(PoppedCycle, ContactedCycle)
    /\ Directed(PoppedCycle, ContactedCycle) = ContactedCycle

(***************************************************************************)
(* OrderedSet: the linked list and the hash map                            *)
(***************************************************************************)
\* the Entry objects met from the sentinel along next (or prev) up to the
\* sentinel again; a chain that meets None or does not come back within the
\* number of Entry objects is broken
Broken == <<0>>
RECURSIVE Chain(_, _, _, _, _)
Chain(h, end, curr, backward, fuel) ==
    LET item == IF backward THEN h.entries[curr].prev ELSE h.entries[curr].next
    IN  IF item = end THEN <<>>
        ELSE IF item = 0 \/ fuel = 0 THEN Broken
        ELSE Only({IF rest = Broken THEN Broken ELSE <<item>> \o rest :
                   rest \in {Chain(h, end, item, backward, fuel - 1)}})

Forward(h, o) == Chain(h, h.osets[o].end, h.osets[o].end, FALSE, Len(h.entries))
Backward(h, o) == Chain(h, h.osets[o].end, h.osets[o].end, TRUE, Len(h.entries))
Mirror(s) == [i \in 1 .. Len(s) |-> s[Len(s) + 1 - i]]

\* the list visits exactly the entries of the map, each once and under its key
ListIsMap(h, o) ==
    LET map == h.osets[o].map
        chain == Forward(h, o)
    IN  /\ chain # Broken
        /\ NoDuplicate(chain)
        /\ Range(chain) = {map[k] : k \in DOMAIN map}
        /\ \A k \in DOMAIN map : h.entries[map[k]].key = k
        /\ \A j, k \in DOMAIN map : map[j] = map[k] => j = k
        /\ __iter__(h, o) = [i \in 1 .. Len(chain) |-> h.entries[chain[i]].key]

Mirrored(h, o) ==
    /\ Backward(h, o) = Mirror(Forward(h, o))
    /\ __reversed__(h, o) = Mirror(__iter__(h, o))

Counted_os_used(h, o) ==
    /\ h.osets[o].os_used = Cardinality(DOMAIN h.osets[o].map)
    /\ h.osets[o].os_used = Len(__iter__(h, o))

InSync == \A o \in DOMAIN heap.osets : /\ ListIsMap(heap, o)
                                       /\ Mirrored(heap, o)
                                       /\ Counted_os_used(heap, o)

\* add and update leave the elements that are present where they are
KeepsPosition ==
    [][(pc = "iterating" /\ ret'.op \in {"add", "update"} /\ heap' # heap)
        => LET was == __iter__(heap, A)
               is == __iter__(heap', A)
           IN  /\ SubSeq(is, 1, Len(was)) = was
               /\ (ret'.op = "add" /\ ret'.arg \in Range(was)) => is = was]_vars

ReAddKeepsHeap ==
    [][(pc = "iterating" /\ ret'.op = "add" /\ ret'.arg \in Range(__iter__(heap, A)))
        => heap' = heap]_vars

\* C28: after any sequence of add, discard, remove, pop, clear, update, reverse
\* and the in-place operators, the linked list from the sentinel visits exactly
\* the keys of the hash map, each once, the backward traversal is the mirror of
\* the forward one, os_used is the number of keys, and an element added again
\* while present keeps its position
C28_ListInSync == []InSync /\ KeepsPosition /\ ReAddKeepsHeap

\* two mutations and an add of a present element behind: A holds two keys after
\* a reverse or an in-place operator and 2, not the first element, is added again
C28_Witness ==
    /\ pc = "iterating"
    /\ ops = MaxOps
    /\ ret.op = "add"
    /\ ret.arg = 2
    /\ __iter__(heap, A) = <<1, 2>>
    /\ Len(heap.osets) > 1
    /\ InSync

(***************************************************************************)
(* outer_loop_layout, one pass of its while loop per step (lines 22-65)    *)
(***************************************************************************)
Continue == <<"continue", <<>>>>
NodeNotInSet(n) == <<"KeyError", <<n>>>>

\* lines 39-61: one pass of the loop; s is laid, with a node in s.nodes.  The
\* result is the local variables after the pass and how the pass ends
Pass(s, g) ==
    LET n == Head(s.nodes)
        popped == Tail(s.nodes)
        neighbors == Listed(OrderedSet(EmptyHeap, g.adj[n]))
        touched == intersection(neighbors, union(s.used_nodes, s.line))
        line == added(s.line, n)
        new_neighbors == difference(neighbors, touched)
        ends == intersection(line, s.o_loop)
        start == ends[Len(ends)]
        end == ends[Len(ends) - 1]
        grown == [s EXCEPT !.nodes = popped,
                           !.line = added(line, new_neighbors[Len(new_neighbors)])]
        placed == [s EXCEPT !.nodes = popped,
                            !.pos = Zip(@, line, linear_layout(s.pos[start], s.pos[end],
                                                               Len(line))),
                            !.used_nodes = union(@, line),
                            !.line = <<>>]
        Remove(t) ==
            IF n \notin Range(t.nodes) /\ s.build = "raise"
            THEN [s |-> t, out |-> NodeNotInSet(n)]
            ELSE [s |-> [t EXCEPT !.nodes = Rest(@, {n})], out |-> Continue]
    IN  IF touched = <<>>
        THEN [s |-> [s EXCEPT !.nodes = added(popped, n)], out |-> Continue]
        ELSE IF new_neighbors # <<>> THEN Remove(grown)
        ELSE IF Len(ends) < 2
        THEN [s |-> [s EXCEPT !.nodes = popped, !.line = line], out |-> PopFromEmptySet]
        ELSE Remove(placed)

\* lines 24-33: the call up to the loop, on either build
EnterLayout ==
    /\ pc = "graph"
    /\ \E build \in {"raise", "drop"} : \E loop \in {outer_loop(graph)} :
        IF loop[1] # "return" \/ build = "raise"
        THEN /\ ret' = Called("outer_loop_layout", build,
                              IF loop[1] # "return" THEN loop ELSE NoReflectedSub)
             /\ pc' = "layout_done"
             /\ UNCHANGED laid
        ELSE /\ laid' = [nodes |-> difference(SetToSeq(Range(graph.nodes)), loop[2]),
                         line |-> <<>>,
                         used_nodes |-> loop[2],
                         pos |-> Zip(EmptyMap, loop[2], regular_polygon_pos(Len(loop[2]))),
                         o_loop |-> loop[2],
                         build |-> build,
                         passes |-> 0]
             /\ pc' = "layout"
             /\ UNCHANGED ret
    /\ UNCHANGED <<graph, cycles, OutsideGraph>>

\* lines 38-61: one pass of `while nodes`
LayoutPass ==
    /\ pc = "layout"
    /\ laid.nodes # <<>>
    /\ \E r \in {Pass(laid, graph)} :
        /\ laid' = [r.s EXCEPT !.passes = 1 - @]
        /\ IF r.out = Continue THEN UNCHANGED <<pc, ret>>
           ELSE /\ ret' = Called("outer_loop_layout", laid.build, r.out)
                /\ pc' = "layout_done"
    /\ UNCHANGED <<graph, cycles, OutsideGraph>>

\* line 65
LayoutReturns ==
    /\ pc = "layout"
    /\ laid.nodes = <<>>
    /\ ret' = Called("outer_loop_layout", laid.build, Gives(laid.pos))
    /\ pc' = "layout_done"
    /\ UNCHANGED <<laid, graph, cycles, OutsideGraph>>

NextLayout == EnterLayout \/ LayoutPass \/ LayoutReturns

\* the loop is a sequential program: once it is entered, a pass that can be
\* taken is taken, and so is the return
SpecLayout == InitGraph /\ [][NextLayout]_vars /\ WF_vars(LayoutPass \/ LayoutReturns)

\* the steps give what the call gives
StepsAgree ==
    pc = "layout_done" => ret.value = outer_loop_layout(graph, ret.arg)

\* the node the next pass takes touches no placed node and no node of the line
NotContacted ==
    /\ pc = "layout"
    /\ laid.nodes # <<>>
    /\ ~Touches(laid, graph, Head(laid.nodes))

\* C29: the loop of outer_loop_layout over the nodes not on the outer loop ends,
\* for every graph on which outer_loop succeeds, also when a node is adjacent to
\* no placed node and to no node of the current line and is put back
C29_LayoutLoopEnds == (pc = "layout") ~> (pc = "layout_done")

\* a node that is put back is taken again
PutBack == [][(NotContacted /\ LayoutPass) =>
                laid'.nodes = Append(Tail(laid.nodes), Head(laid.nodes))]_vars

\* the loop ends when every component of the graph holds a node of the outer loop
LoopReachesAll == Reachable(Range(laid.o_loop)) = NodeSet
EndsWhenConnected == (pc = "layout" /\ LoopReachesAll) ~> (pc = "layout_done")
PutBackAndEnded ==
    /\ pc = "layout_done"
    /\ ret.value[1] = "return"
    /\ Len(laid.used_nodes) > Len(laid.o_loop)

(***************************************************************************)
(* The adjacency map and the working joint list                            *)
(***************************************************************************)
\* the links of the working joint n
LinksOf(n) == Range(Joint(WorkList, n).links)

\* n is in vlinks[link] exactly when link is a link of the working joint n
Agree(link, n) ==
    (link \in DOMAIN vlinks /\ n \in vlinks[link]) <=> link \in LinksOf(n)

\* what the lookups return for the working joint n (lines 162-225) is on a link
\* of n: the link queried, where the lookup queries one link
ReturnedOnLink(n) ==
    LET v == Joint(WorkList, n)
        reliable == _get_reliable_friend(n, WorkList, vlinks, status)
        not_base == _get_not_base_friend(n, WorkList, vlinks, status)
        base == _get_base_friend(n, WorkList, vlinks, status)
        On(f, links) == f # -1 => LinksOf(f) \cap links # {}
    IN  /\ v.type = R => On(reliable.fa, LinksOf(n)) /\ On(reliable.fb, LinksOf(n))
        /\ v.type = RP => /\ On(not_base.fa, {v.links[2]})
                          /\ On(base.fa, {v.links[1]}) /\ On(base.fb, {v.links[1]})

ReturnedFriendsShare == \A n \in Idx(WorkList) : ReturnedOnLink(n)

\* C30: throughout t_config a joint index n is in vlinks[link] if and only if link
\* is in the link list of the working joint n, also after the P-to-RP
\* normalization, so the friend lookups only return joints that share the queried
\* link with the joint being placed
C30_VlinksAgree ==
    vpoints # 0 =>
        /\ \A n \in Idx(WorkList) : \A link \in DOMAIN vlinks \cup LinksOf(n) : Agree(link, n)
        /\ ReturnedFriendsShare

\* the map agrees with the list the caller passed, which t_config does not change
AgreesWithCaller ==
    vpoints # 0 => vlinks = BuildVlinks(lists[vpoints_])

\* the map and the working list agree while no joint has been replaced
AgreeUnlessReplaced ==
    (vpoints # 0 /\ WorkList = lists[vpoints_]) => C30_VlinksAgree

\* what is left of the claim: the lookups find their links in the map, and what
\* they return is on the link
LookupsFindLinks ==
    vpoints # 0 => \A n \in Idx(WorkList) : LinksOf(n) \subseteq DOMAIN vlinks
FriendsShare == vpoints # 0 => ReturnedFriendsShare

====
